---- MODULE Spec2Model ----
(***************************************************************************)
(* Request-routing decision engine (Kaedim MCP agent).                     *)
(*                                                                         *)
(* The server (mcp_server.py / mcp_server_http.py) holds a read-only       *)
(* snapshot (requests, artists, presets, rules) and an audit list of       *)
(* decisions.  The clients (run_agent.py, run_agent_http.py,               *)
(* run_agent_mcp_client.py) sequence validate_preset, plan_steps and       *)
(* assign_artist and record a Decision.                                    *)
(***************************************************************************)
EXTENDS Integers, Sequences, FiniteSets, TLC

VARIABLES
    requests,           \* KaedimMCPServer.requests
    artists,            \* KaedimMCPServer.artists
    presets,            \* KaedimMCPServer.presets (account -> preset)
    rules,              \* KaedimMCPServer.rules
    decisions,          \* KaedimMCPServer.decisions (audit list)
    reply,              \* result of the last direct tool call on the server
    history,            \* the direct calls answered by the server, in order
    agent,              \* which client class drives the batch
    max_steps,          \* LLMEnhancedMCPAgent.max_steps
    pc,                 \* position of the client in process_request
    idx,                \* index of the request being processed by the batch
    step,               \* number of iterations of the bounded loop so far
    state,              \* accumulated observations of the current request
    observations,       \* actions observed so far (run_agent.py loop)
    fin,                \* finish arguments given by the policy, or NoFinish
    trace,              \* trace of the current request
    calls,              \* tool names sent to the server for the current request
    faults,             \* whether the decision function failed in the current request
    produced,           \* self.decisions of the client (Decisions returned)
    failed              \* requests whose process_request raised

vars == <<requests, artists, presets, rules, decisions, reply, history, agent,
          max_steps, pc, idx, step, state, observations, fin, trace, calls,
          faults, produced, failed>>

snapshot == <<requests, artists, presets, rules>>
direct == <<reply, history>>
clientVars == <<agent, max_steps, pc, idx, step, state, observations, fin,
                trace, calls, faults, produced, failed>>

-----------------------------------------------------------------------------
(* Bounds of the model *)
MaxArtists == 3
MaxSteps == 4
MaxCalls == 3
MaxRules == 3

\* the longest error list handed to the messaging derivation
MaxErrors == 2
MaxSessions == 2

-----------------------------------------------------------------------------
(* Python values *)

None == "None"

EmptyDict == [k \in {} |-> TRUE]

\* dict.get(key, default)
Get(d, k, def) == IF k \in DOMAIN d THEN d[k] ELSE def

\* The characters of a string literal (TLA+ strings cannot be indexed).
Chars(s) ==
    CASE s = "" -> <<>>
      [] s = "lowpoly" -> <<"l","o","w","p","o","l","y">>
      [] s = "low_poly" -> <<"l","o","w","_","p","o","l","y">>
      [] s = "low poly" -> <<"l","o","w"," ","p","o","l","y">>
      [] s = "Unity" -> <<"U","n","i","t","y">>
      [] s = "unity" -> <<"u","n","i","t","y">>
      [] s = "unreal" -> <<"u","n","r","e","a","l">>
      [] s = "quad" -> <<"q","u","a","d">>
      [] s = "quad_only" -> <<"q","u","a","d","_","o","n","l","y">>
      [] s = "pbr" -> <<"p","b","r">>
      [] s = "PBR" -> <<"P","B","R">>
      [] s = "expedite" -> <<"e","x","p","e","d","i","t","e">>
      [] s = "expedite_now" -> <<"e","x","p","e","d","i","t","e","_","n","o","w">>
      [] s = "standard" -> <<"s","t","a","n","d","a","r","d">>
      [] s = "Request not found" ->
             <<"R","e","q","u","e","s","t"," ","n","o","t"," ","f","o","u","n","d">>
      [] s = "Missing texture channels" ->
             <<"M","i","s","s","i","n","g"," ","t","e","x","t","u","r","e"," ","c","h","a","n","n","e","l","s">>
      [] s = "No texture packing configuration found" ->
             <<"N","o"," ","t","e","x","t","u","r","e"," ","p","a","c","k","i","n","g"," ","c","o","n","f","i","g","u","r","a","t","i","o","n"," ","f","o","u","n","d">>
      [] s = "Preset version not specified" ->
             <<"P","r","e","s","e","t"," ","v","e","r","s","i","o","n"," ","n","o","t"," ","s","p","e","c","i","f","i","e","d">>
      [] s = "Missing naming pattern in preset" ->
             <<"M","i","s","s","i","n","g"," ","n","a","m","i","n","g"," ","p","a","t","t","e","r","n"," ","i","n"," ","p","r","e","s","e","t">>
      [] s = "Unsupported engine" ->
             <<"U","n","s","u","p","p","o","r","t","e","d"," ","e","n","g","i","n","e">>
      [] s = "Engine not specified" ->
             <<"E","n","g","i","n","e"," ","n","o","t"," ","s","p","e","c","i","f","i","e","d">>
      [] s = "Unsupported map" ->
             <<"U","n","s","u","p","p","o","r","t","e","d"," ","m","a","p">>
      [] s = "Map conflict" ->
             <<"M","a","p"," ","c","o","n","f","l","i","c","t">>
      [] s = "Topology must be quad only" ->
             <<"T","o","p","o","l","o","g","y"," ","m","u","s","t"," ","b","e"," ","q","u","a","d"," ","o","n","l","y">>
      [] s = "Missing UVs" ->
             <<"M","i","s","s","i","n","g"," ","U","V","s">>
      [] s = "UV overlap detected" ->
             <<"U","V"," ","o","v","e","r","l","a","p"," ","d","e","t","e","c","t","e","d">>
      [] s = "Exceeds max texture size" ->
             <<"E","x","c","e","e","d","s"," ","m","a","x"," ","t","e","x","t","u","r","e"," ","s","i","z","e">>
      [] s = "Exceeds polycount" ->
             <<"E","x","c","e","e","d","s"," ","p","o","l","y","c","o","u","n","t">>
      [] s = "missing texture channels" ->
             <<"m","i","s","s","i","n","g"," ","t","e","x","t","u","r","e"," ","c","h","a","n","n","e","l","s">>
      [] s = "texture channels" ->
             <<"t","e","x","t","u","r","e"," ","c","h","a","n","n","e","l","s">>
      [] s = "no texture packing configuration" ->
             <<"n","o"," ","t","e","x","t","u","r","e"," ","p","a","c","k","i","n","g"," ","c","o","n","f","i","g","u","r","a","t","i","o","n">>
      [] s = "preset version not specified" ->
             <<"p","r","e","s","e","t"," ","v","e","r","s","i","o","n"," ","n","o","t"," ","s","p","e","c","i","f","i","e","d">>
      [] s = "version" ->
             <<"v","e","r","s","i","o","n">>
      [] s = "not" ->
             <<"n","o","t">>
      [] s = "specified" ->
             <<"s","p","e","c","i","f","i","e","d">>
      [] s = "engine not specified" ->
             <<"e","n","g","i","n","e"," ","n","o","t"," ","s","p","e","c","i","f","i","e","d">>
      [] s = "missing engine" ->
             <<"m","i","s","s","i","n","g"," ","e","n","g","i","n","e">>
      [] s = "unsupported engine" ->
             <<"u","n","s","u","p","p","o","r","t","e","d"," ","e","n","g","i","n","e">>
      [] s = "engine not supported" ->
             <<"e","n","g","i","n","e"," ","n","o","t"," ","s","u","p","p","o","r","t","e","d">>
      [] s = "unsupported map" ->
             <<"u","n","s","u","p","p","o","r","t","e","d"," ","m","a","p">>
      [] s = "unsupported texture" ->
             <<"u","n","s","u","p","p","o","r","t","e","d"," ","t","e","x","t","u","r","e">>
      [] s = "conflicting maps" ->
             <<"c","o","n","f","l","i","c","t","i","n","g"," ","m","a","p","s">>
      [] s = "map conflict" ->
             <<"m","a","p"," ","c","o","n","f","l","i","c","t">>
      [] s = "quad only" ->
             <<"q","u","a","d"," ","o","n","l","y">>
      [] s = "quad-only" ->
             <<"q","u","a","d","-","o","n","l","y">>
      [] s = "missing uvs" ->
             <<"m","i","s","s","i","n","g"," ","u","v","s">>
      [] s = "uvs not found" ->
             <<"u","v","s"," ","n","o","t"," ","f","o","u","n","d">>
      [] s = "uv overlap" ->
             <<"u","v"," ","o","v","e","r","l","a","p">>
      [] s = "overlapping uvs" ->
             <<"o","v","e","r","l","a","p","p","i","n","g"," ","u","v","s">>
      [] s = "exceeds max texture size" ->
             <<"e","x","c","e","e","d","s"," ","m","a","x"," ","t","e","x","t","u","r","e"," ","s","i","z","e">>
      [] s = "texture too large" ->
             <<"t","e","x","t","u","r","e"," ","t","o","o"," ","l","a","r","g","e">>
      [] s = "exceeds polycount" ->
             <<"e","x","c","e","e","d","s"," ","p","o","l","y","c","o","u","n","t">>
      [] s = "polycount too high" ->
             <<"p","o","l","y","c","o","u","n","t"," ","t","o","o"," ","h","i","g","h">>

LowerChar(c) ==
    CASE c = "A" -> "a"
      [] c = "B" -> "b"
      [] c = "C" -> "c"
      [] c = "D" -> "d"
      [] c = "E" -> "e"
      [] c = "F" -> "f"
      [] c = "G" -> "g"
      [] c = "H" -> "h"
      [] c = "I" -> "i"
      [] c = "J" -> "j"
      [] c = "K" -> "k"
      [] c = "L" -> "l"
      [] c = "M" -> "m"
      [] c = "N" -> "n"
      [] c = "O" -> "o"
      [] c = "P" -> "p"
      [] c = "Q" -> "q"
      [] c = "R" -> "r"
      [] c = "S" -> "s"
      [] c = "T" -> "t"
      [] c = "U" -> "u"
      [] c = "V" -> "v"
      [] c = "W" -> "w"
      [] c = "X" -> "x"
      [] c = "Y" -> "y"
      [] c = "Z" -> "z"
      [] OTHER -> c

\* a list comprehension, evaluated once into a list
ListOf(f) == SubSeq(f, 1, Len(f))

\* str.lower()
Lower(cs) == ListOf([i \in 1..Len(cs) |-> LowerChar(cs[i])])

\* str.replace("_", " ")
ReplaceUnderscore(cs) ==
    ListOf([i \in 1..Len(cs) |-> IF cs[i] = "_" THEN " " ELSE cs[i]])

\* " ".join(words)
RECURSIVE Join(_)
Join(words) ==
    IF Len(words) = 0 THEN <<>>
    ELSE IF Len(words) = 1 THEN words[1]
    ELSE words[1] \o <<" ">> \o Join(Tail(words))

\* needle in haystack, for two strings
IsSubstring(needle, hay) ==
    \E i \in 0..(Len(hay) - Len(needle)) :
        \A j \in 1..Len(needle) : hay[i + j] = needle[j]

\* x in list
InList(x, list) == \E i \in 1..Len(list) : list[i] = x

\* whether next((r for r in self.requests if r["id"] == request_id), None)
\* finds a request
HasRequest(reqs, request_id) == \E i \in 1..Len(reqs) : reqs[i].id = request_id

\* next((r for r in self.requests if r["id"] == request_id), None), when found
FindRequest(reqs, request_id) ==
    reqs[CHOOSE i \in 1..Len(reqs) :
            /\ reqs[i].id = request_id
            /\ \A j \in 1..(i - 1) : reqs[j].id # request_id]

\* all(req.get(k) == v for k, v in cond.items())
AllMatch(req, cond) == \A k \in DOMAIN cond : Get(req, k, None) = cond[k]

-----------------------------------------------------------------------------
(* Assignment engine: KaedimMCPServer._assign_artist *)

\* _is_priority(req)
IsPriority(rls, req) ==
    \E i \in 1..Len(rls) :
        /\ AllMatch(req, Get(rls[i], "if", EmptyDict))
        /\ Get(Get(rls[i], "then", EmptyDict), "queue", None) = "expedite"

\* the skill-match buckets of one artist
SkillScore(req, artist) ==
    LET style == Lower(Chars(Get(req, "style", "")))
        engine == Lower(Chars(Get(req, "engine", "")))
        topology == Lower(Chars(Get(req, "topology", "")))
        raw == Get(artist, "skills", <<>>)
        skills == ListOf([i \in 1..Len(raw) |-> Lower(Chars(raw[i]))])
        joined == Join(skills)
        s1 == IF style # <<>> /\ (InList(style, skills)
                                  \/ IsSubstring(ReplaceUnderscore(style), joined))
              THEN 10 ELSE 0
        s2 == IF engine # <<>> /\ InList(engine, skills) THEN 5 ELSE 0
        s3 == IF topology # <<>> /\ IsSubstring(topology, joined) THEN 5 ELSE 0
    IN s1 + s2 + s3

Max(a, b) == IF a >= b THEN a ELSE b

\* a row whose fallback score also depends on the identity of the artist
RowScoreByArtist(req, is_priority, artist) ==
    LET skill_score == SkillScore(req, artist)
        capacity == Get(artist, "capacity_concurrent", 1)
        load == Get(artist, "active_load", 0)
        available_capacity == Max(0, capacity - load)
    IN [artist |-> artist,
        skill_score |-> skill_score,
        available_capacity |-> available_capacity,
        load |-> load,
        priority_flag |-> IF is_priority /\ available_capacity > 0 THEN 1 ELSE 0,
        score |-> available_capacity * 2 + skill_score
                  + (IF artist.id = "a-1" THEN 1 ELSE 0)]

\* one element of rows
Row(req, is_priority, artist) ==
    LET skill_score == SkillScore(req, artist)
        capacity == Get(artist, "capacity_concurrent", 1)
        load == Get(artist, "active_load", 0)
        available_capacity == Max(0, capacity - load)
        nudge == IF is_priority
                 THEN (IF available_capacity > 0 THEN 6 ELSE -6)
                 ELSE 0
    IN [artist |-> artist,
        skill_score |-> skill_score,
        available_capacity |-> available_capacity,
        load |-> load,
        priority_flag |-> IF is_priority /\ available_capacity > 0 THEN 1 ELSE 0,
        score |-> available_capacity * 2 + skill_score + nudge]

\* a weighted scalar in place of the lexicographic key
RowKeyScalar(r) == <<r.score>>

\* the sort key of rows.sort
RowKey(r) ==
    <<r.skill_score, r.priority_flag, r.available_capacity, -r.load, r.score>>

\* tuple comparison a < b
TupleLess(a, b) ==
    \E i \in 1..Len(a) :
        /\ i <= Len(b)
        /\ a[i] < b[i]
        /\ \A j \in 1..(i - 1) : a[j] = b[j]

\* the position of rows[i] when ties come out in reverse roster order
SortPositionTiesReversed(rows, i) ==
    LET ki == RowKey(rows[i])
    IN Cardinality({j \in 1..Len(rows) : TupleLess(ki, RowKey(rows[j]))})
       + Cardinality({j \in (i + 1)..Len(rows) : RowKey(rows[j]) = ki}) + 1

\* the position of rows[i] after rows.sort(key=..., reverse=True): behind every
\* row with a greater key and behind the earlier rows with an equal key
\* (list.sort is stable, also with reverse=True)
SortPosition(rows, i) ==
    LET ki == RowKey(rows[i])
    IN Cardinality({j \in 1..Len(rows) : TupleLess(ki, RowKey(rows[j]))})
       + Cardinality({j \in 1..(i - 1) : RowKey(rows[j]) = ki}) + 1

\* rows.sort(key=..., reverse=True)
SortRows(rows) ==
    LET pos == ListOf([i \in 1..Len(rows) |-> SortPosition(rows, i)])
    IN ListOf([p \in 1..Len(rows) |-> rows[CHOOSE i \in 1..Len(rows) : pos[i] = p]])

\* the ranked rows of a roster
RankedRows(rls, roster, req) ==
    LET is_priority == IsPriority(rls, req)
    IN SortRows(ListOf([i \in 1..Len(roster) |-> Row(req, is_priority, roster[i])]))

\* eligibility by free capacity alone
EligibleFreeOnly(r) == r.available_capacity > 0

\* r["skill_score"] > 0 or r["available_capacity"] > 0
Eligible(r) == r.skill_score > 0 \/ r.available_capacity > 0

\* [x for x in list if P(x)]
RECURSIVE FilterEligible(_)
FilterEligible(rows) ==
    IF Len(rows) = 0 THEN <<>>
    ELSE (IF Eligible(Head(rows)) THEN <<Head(rows)>> ELSE <<>>)
         \o FilterEligible(Tail(rows))

\* rows[1:3] without the eligibility filter
AlternativesUnfiltered(rows) ==
    LET cut == SubSeq(rows, 2, IF Len(rows) < 3 THEN Len(rows) ELSE 3)
    IN ListOf([i \in 1..Len(cut) |->
                  [id |-> cut[i].artist.id, name |-> cut[i].artist.name,
                   score |-> cut[i].score]])

\* the alternative_artists comprehension over rows[1:3]
Alternatives(rows) ==
    LET cut == FilterEligible(SubSeq(rows, 2, IF Len(rows) < 3 THEN Len(rows) ELSE 3))
    IN ListOf([i \in 1..Len(cut) |->
                  [id |-> cut[i].artist.id, name |-> cut[i].artist.name,
                   score |-> cut[i].score]])

\* the result built from the sorted rows: top = rows[0] if rows else None ...
SelectTop(rows) ==
    IF Len(rows) > 0 /\ Eligible(rows[1])
    THEN [artist_id |-> rows[1].artist.id,
          artist_name |-> rows[1].artist.name,
          reason |-> "Best match",
          match_score |-> rows[1].score,
          alternative_artists |-> Alternatives(rows)]
    ELSE [artist_id |-> None,
          reason |-> "No available artists with matching skills",
          alternative_artists |-> <<>>]

\* _assign_artist over an explicit snapshot
AssignArtistOn(reqs, roster, rls, request_id) ==
    IF ~HasRequest(reqs, request_id)
    THEN [artist_id |-> None, reason |-> "Request not found",
          alternative_artists |-> <<>>]
    ELSE SelectTop(RankedRows(rls, roster, FindRequest(reqs, request_id)))

\* self._assign_artist(request_id)
AssignArtist(request_id) == AssignArtistOn(requests, artists, rules, request_id)

-----------------------------------------------------------------------------
(* Validation engine: KaedimMCPServer._validate_preset *)

\* an error message: its fixed text and the values formatted into it
Err(text, detail) == [text |-> text, detail |-> detail]

required_channels == <<"r", "g", "b", "a">>

\* the channels that are present, reported as missing
MissingChannelsInverted(chs, packing) ==
    SelectSeq(chs, LAMBDA ch : ch \in DOMAIN packing)

\* [ch for ch in required_channels if ch not in packing]
RECURSIVE MissingChannels(_, _)
MissingChannels(chs, packing) ==
    IF Len(chs) = 0 THEN <<>>
    ELSE (IF Head(chs) \in DOMAIN packing THEN <<>> ELSE <<Head(chs)>>)
         \o MissingChannels(Tail(chs), packing)

\* the result for a request id that is not in self.requests
ValidateNotFound(request_id) ==
    [ok |-> FALSE, errors |-> <<Err("Request not found", <<request_id>>)>>]

\* the naming check: only a preset with a naming section is checked
NamingErrors(preset) ==
    IF "naming" \in DOMAIN preset /\ Get(preset["naming"], "pattern", "") = ""
    THEN <<Err("Missing naming pattern in preset", <<>>)>>
    ELSE <<>>

\* the packing check without the branch for a preset that has no packing
PackingErrorsNoElse(preset) ==
    IF "packing" \in DOMAIN preset
       /\ Len(MissingChannels(required_channels, preset["packing"])) > 0
    THEN <<Err("Missing texture channels",
               MissingChannels(required_channels, preset["packing"]))>>
    ELSE <<>>

\* the packing check: one error naming all the missing channels, or the
\* error for a preset without packing
PackingErrors(preset) ==
    IF "packing" \in DOMAIN preset
    THEN LET missing_channels ==
                 MissingChannels(required_channels, preset["packing"])
         IN IF Len(missing_channels) > 0
            THEN <<Err("Missing texture channels", missing_channels)>>
            ELSE <<>>
    ELSE <<Err("No texture packing configuration found", <<>>)>>

\* the version check
VersionErrors(preset) ==
    IF "version" \notin DOMAIN preset
    THEN <<Err("Preset version not specified", <<>>)>>
    ELSE <<>>

\* _validate_preset over an explicit snapshot
ValidatePresetOn(reqs, prs, request_id, account_id) ==
    IF ~HasRequest(reqs, request_id)
    THEN ValidateNotFound(request_id)
    ELSE LET preset == Get(prs, account_id, EmptyDict)
             errors == NamingErrors(preset) \o PackingErrors(preset)
                       \o VersionErrors(preset)
         IN [ok |-> Len(errors) = 0,
             errors |-> errors,
             preset_version |-> Get(preset, "version", None),
             validation_timestamp |-> "now"]

\* an event for every failed validation of a known request
ValidateEventsOnAnyError(reqs, prs, request_id, account_id) ==
    IF HasRequest(reqs, request_id)
       /\ ~ValidatePresetOn(reqs, prs, request_id, account_id).ok
    THEN <<[type |-> "validation.failed",
            data |-> [request_id |-> request_id, account_id |-> account_id,
                      error |-> "invalid_texture_packing"]]>>
    ELSE <<>>

\* the events that _validate_preset emits: self._emit_event("validation.failed",
\* ...) in the branch of the missing channels
ValidateEvents(reqs, prs, request_id, account_id) ==
    IF ~HasRequest(reqs, request_id) THEN <<>>
    ELSE LET preset == Get(prs, account_id, EmptyDict)
         IN IF "packing" \in DOMAIN preset
               /\ Len(MissingChannels(required_channels, preset["packing"])) > 0
            THEN <<[type |-> "validation.failed",
                    data |-> [request_id |-> request_id,
                              account_id |-> account_id,
                              error |-> "invalid_texture_packing",
                              missing_channels |->
                                  MissingChannels(required_channels,
                                                  preset["packing"])]]>>
            ELSE <<>>

\* self._validate_preset(request_id, account_id)
ValidatePreset(request_id, account_id) ==
    ValidatePresetOn(requests, presets, request_id, account_id)

-----------------------------------------------------------------------------
(* Planning engine: KaedimMCPServer._plan_steps *)

\* self.rules.index(rule)
RuleIndex(rls, rule) == (CHOOSE i \in 1..Len(rls) :
                            /\ rls[i] = rule
                            /\ \A j \in 1..(i - 1) : rls[j] # rule) - 1

\* steps.insert(-1, step): before the last step only
InsertBeforeLast(steps, st) ==
    LET n == Max(0, Len(steps) - 1)
    IN SubSeq(steps, 1, n) \o <<st>> \o SubSeq(steps, n + 1, Len(steps))

\* steps.insert(-2, step)
InsertBeforeTail(steps, st) ==
    LET n == Max(0, Len(steps) - 2)
    IN SubSeq(steps, 1, n) \o <<st>> \o SubSeq(steps, n + 1, Len(steps))

\* for step in actions["steps"]: if step not in steps: steps.insert(-2, step)
RECURSIVE AddSteps(_, _)
AddSteps(steps, new) ==
    IF Len(new) = 0 THEN steps
    ELSE AddSteps(IF InList(Head(new), steps) THEN steps
                  ELSE InsertBeforeTail(steps, Head(new)),
                  Tail(new))

\* the loop over self.rules: the pair <<steps, matched_rules>> after rule i..
RECURSIVE ApplyRules(_, _, _, _, _)
ApplyRules(rls, i, req, steps, matched) ==
    IF i > Len(rls) THEN <<steps, matched>>
    ELSE LET conditions == Get(rls[i], "if", EmptyDict)
             actions == Get(rls[i], "then", EmptyDict)
         IN IF AllMatch(req, conditions)
            THEN ApplyRules(rls, i + 1, req,
                            AddSteps(steps, Get(actions, "steps", <<>>)),
                            Append(matched,
                                   [rule_id |-> RuleIndex(rls, rls[i]),
                                    condition |-> conditions,
                                    action |-> actions]))
            ELSE ApplyRules(rls, i + 1, req, steps, matched)

\* the not-found result with the default steps already in it
PlanNotFoundDefaultSteps(request_id) ==
    [steps |-> <<"qa_check", "delivery">>, matched_rules |-> <<>>,
     error |-> Err("Request not found", <<request_id>>)]

\* the result for a request id that is not in self.requests
PlanNotFound(request_id) ==
    [steps |-> <<>>, matched_rules |-> <<>>,
     error |-> Err("Request not found", <<request_id>>)]

\* _plan_steps over an explicit snapshot
PlanStepsOn(reqs, rls, request_id) ==
    IF ~HasRequest(reqs, request_id)
    THEN PlanNotFound(request_id)
    ELSE LET res == ApplyRules(rls, 1, FindRequest(reqs, request_id),
                               <<"qa_check", "delivery">>, <<>>)
             steps == res[1]
             matched_rules == res[2]
         IN [steps |-> steps,
             matched_rules |-> matched_rules,
             estimated_hours |-> Len(steps) * 2,
             priority_queue |->
                 \E i \in 1..Len(matched_rules) :
                     IsSubstring(Chars("expedite"),
                                 Chars(Get(matched_rules[i].action, "queue", "")))]

\* self._plan_steps(request_id)
PlanSteps(request_id) == PlanStepsOn(requests, rules, request_id)

-----------------------------------------------------------------------------
(* The engines of mcp_server_http.py: KaedimMCPServer._assign_artist,      *)
(* _validate_preset and _plan_steps of the HTTP server, which has its own *)
(* copy of the code of the three engines                                   *)

\* _is_priority(req)
HttpIsPriority(rls, req) ==
    \E i \in 1..Len(rls) :
        /\ AllMatch(req, Get(rls[i], "if", EmptyDict))
        /\ Get(Get(rls[i], "then", EmptyDict), "queue", None) = "expedite"

\* the skill-match buckets of one artist
HttpSkillScore(req, artist) ==
    LET style == Lower(Chars(Get(req, "style", "")))
        engine == Lower(Chars(Get(req, "engine", "")))
        topology == Lower(Chars(Get(req, "topology", "")))
        raw == Get(artist, "skills", <<>>)
        skills == ListOf([i \in 1..Len(raw) |-> Lower(Chars(raw[i]))])
        joined == Join(skills)
        s1 == IF style # <<>> /\ (InList(style, skills)
                                  \/ IsSubstring(ReplaceUnderscore(style), joined))
              THEN 10 ELSE 0
        s2 == IF engine # <<>> /\ InList(engine, skills) THEN 5 ELSE 0
        s3 == IF topology # <<>> /\ IsSubstring(topology, joined) THEN 5 ELSE 0
    IN s1 + s2 + s3

\* one element of rows
HttpRow(req, is_priority, artist) ==
    LET skill_score == HttpSkillScore(req, artist)
        capacity == Get(artist, "capacity_concurrent", 1)
        load == Get(artist, "active_load", 0)
        available_capacity == Max(0, capacity - load)
        nudge == IF is_priority
                 THEN (IF available_capacity > 0 THEN 6 ELSE -6)
                 ELSE 0
    IN [artist |-> artist,
        skill_score |-> skill_score,
        available_capacity |-> available_capacity,
        load |-> load,
        priority_flag |-> IF is_priority /\ available_capacity > 0 THEN 1 ELSE 0,
        score |-> available_capacity * 2 + skill_score + nudge]

\* the sort key of rows.sort
HttpRowKey(r) ==
    <<r.skill_score, r.priority_flag, r.available_capacity, -r.load, r.score>>

\* the position of rows[i] after rows.sort(key=..., reverse=True): behind every
\* row with a greater key and behind the earlier rows with an equal key
\* (list.sort is stable, also with reverse=True)
HttpSortPosition(rows, i) ==
    LET ki == HttpRowKey(rows[i])
    IN Cardinality({j \in 1..Len(rows) : TupleLess(ki, HttpRowKey(rows[j]))})
       + Cardinality({j \in 1..(i - 1) : HttpRowKey(rows[j]) = ki}) + 1

\* rows.sort(key=..., reverse=True)
HttpSortRows(rows) ==
    LET pos == ListOf([i \in 1..Len(rows) |-> HttpSortPosition(rows, i)])
    IN ListOf([p \in 1..Len(rows) |-> rows[CHOOSE i \in 1..Len(rows) : pos[i] = p]])

\* the ranked rows of a roster
HttpRankedRows(rls, roster, req) ==
    LET is_priority == HttpIsPriority(rls, req)
    IN HttpSortRows(ListOf([i \in 1..Len(roster) |-> HttpRow(req, is_priority, roster[i])]))

\* r["skill_score"] > 0 or r["available_capacity"] > 0
HttpEligible(r) == r.skill_score > 0 \/ r.available_capacity > 0

\* [x for x in list if P(x)]
RECURSIVE HttpFilterEligible(_)
HttpFilterEligible(rows) ==
    IF Len(rows) = 0 THEN <<>>
    ELSE (IF HttpEligible(Head(rows)) THEN <<Head(rows)>> ELSE <<>>)
         \o HttpFilterEligible(Tail(rows))

\* the alternative_artists comprehension over rows[1:3]
HttpAlternatives(rows) ==
    LET cut == HttpFilterEligible(SubSeq(rows, 2, IF Len(rows) < 3 THEN Len(rows) ELSE 3))
    IN ListOf([i \in 1..Len(cut) |->
                  [id |-> cut[i].artist.id, name |-> cut[i].artist.name,
                   score |-> cut[i].score]])

\* the result built from the sorted rows: top = rows[0] if rows else None ...
HttpSelectTop(rows) ==
    IF Len(rows) > 0 /\ HttpEligible(rows[1])
    THEN [artist_id |-> rows[1].artist.id,
          artist_name |-> rows[1].artist.name,
          reason |-> "Best match",
          match_score |-> rows[1].score,
          alternative_artists |-> HttpAlternatives(rows)]
    ELSE [artist_id |-> None,
          reason |-> "No available artists with matching skills",
          alternative_artists |-> <<>>]

\* _assign_artist over an explicit snapshot
HttpAssignArtistOn(reqs, roster, rls, request_id) ==
    IF ~HasRequest(reqs, request_id)
    THEN [artist_id |-> None, reason |-> "Request not found",
          alternative_artists |-> <<>>]
    ELSE HttpSelectTop(HttpRankedRows(rls, roster, FindRequest(reqs, request_id)))

\* self._assign_artist(request_id)
HttpAssignArtist(request_id) == HttpAssignArtistOn(requests, artists, rules, request_id)

http_required_channels == <<"r", "g", "b", "a">>

\* [ch for ch in required_channels if ch not in packing]
RECURSIVE HttpMissingChannels(_, _)
HttpMissingChannels(chs, packing) ==
    IF Len(chs) = 0 THEN <<>>
    ELSE (IF Head(chs) \in DOMAIN packing THEN <<>> ELSE <<Head(chs)>>)
         \o HttpMissingChannels(Tail(chs), packing)

\* the result for a request id that is not in self.requests
HttpValidateNotFound(request_id) ==
    [ok |-> FALSE, errors |-> <<Err("Request not found", <<request_id>>)>>]

\* the naming check: only a preset with a naming section is checked
HttpNamingErrors(preset) ==
    IF "naming" \in DOMAIN preset /\ Get(preset["naming"], "pattern", "") = ""
    THEN <<Err("Missing naming pattern in preset", <<>>)>>
    ELSE <<>>

\* the packing check: one error naming all the missing channels, or the
\* error for a preset without packing
HttpPackingErrors(preset) ==
    IF "packing" \in DOMAIN preset
    THEN LET missing_channels ==
                 HttpMissingChannels(http_required_channels, preset["packing"])
         IN IF Len(missing_channels) > 0
            THEN <<Err("Missing texture channels", missing_channels)>>
            ELSE <<>>
    ELSE <<Err("No texture packing configuration found", <<>>)>>

\* the version check
HttpVersionErrors(preset) ==
    IF "version" \notin DOMAIN preset
    THEN <<Err("Preset version not specified", <<>>)>>
    ELSE <<>>

\* _validate_preset over an explicit snapshot
HttpValidatePresetOn(reqs, prs, request_id, account_id) ==
    IF ~HasRequest(reqs, request_id)
    THEN HttpValidateNotFound(request_id)
    ELSE LET preset == Get(prs, account_id, EmptyDict)
             errors == HttpNamingErrors(preset) \o HttpPackingErrors(preset)
                       \o HttpVersionErrors(preset)
         IN [ok |-> Len(errors) = 0,
             errors |-> errors,
             preset_version |-> Get(preset, "version", None),
             validation_timestamp |-> "now"]

\* self._validate_preset(request_id, account_id)
HttpValidatePreset(request_id, account_id) ==
    HttpValidatePresetOn(requests, presets, request_id, account_id)

\* self.rules.index(rule)
HttpRuleIndex(rls, rule) == (CHOOSE i \in 1..Len(rls) :
                            /\ rls[i] = rule
                            /\ \A j \in 1..(i - 1) : rls[j] # rule) - 1

\* steps.insert(-2, step)
HttpInsertBeforeTail(steps, st) ==
    LET n == Max(0, Len(steps) - 2)
    IN SubSeq(steps, 1, n) \o <<st>> \o SubSeq(steps, n + 1, Len(steps))

\* for step in actions["steps"]: if step not in steps: steps.insert(-2, step)
RECURSIVE HttpAddSteps(_, _)
HttpAddSteps(steps, new) ==
    IF Len(new) = 0 THEN steps
    ELSE HttpAddSteps(IF InList(Head(new), steps) THEN steps
                  ELSE HttpInsertBeforeTail(steps, Head(new)),
                  Tail(new))

\* the loop over self.rules: the pair <<steps, matched_rules>> after rule i..
RECURSIVE HttpApplyRules(_, _, _, _, _)
HttpApplyRules(rls, i, req, steps, matched) ==
    IF i > Len(rls) THEN <<steps, matched>>
    ELSE LET conditions == Get(rls[i], "if", EmptyDict)
             actions == Get(rls[i], "then", EmptyDict)
         IN IF AllMatch(req, conditions)
            THEN HttpApplyRules(rls, i + 1, req,
                            HttpAddSteps(steps, Get(actions, "steps", <<>>)),
                            Append(matched,
                                   [rule_id |-> HttpRuleIndex(rls, rls[i]),
                                    condition |-> conditions,
                                    action |-> actions]))
            ELSE HttpApplyRules(rls, i + 1, req, steps, matched)

\* the result for a request id that is not in self.requests
HttpPlanNotFound(request_id) ==
    [steps |-> <<>>, matched_rules |-> <<>>,
     error |-> Err("Request not found", <<request_id>>)]

\* _plan_steps over an explicit snapshot
HttpPlanStepsOn(reqs, rls, request_id) ==
    IF ~HasRequest(reqs, request_id)
    THEN HttpPlanNotFound(request_id)
    ELSE LET res == HttpApplyRules(rls, 1, FindRequest(reqs, request_id),
                               <<"qa_check", "delivery">>, <<>>)
             steps == res[1]
             matched_rules == res[2]
         IN [steps |-> steps,
             matched_rules |-> matched_rules,
             estimated_hours |-> Len(steps) * 2,
             priority_queue |->
                 \E i \in 1..Len(matched_rules) :
                     IsSubstring(Chars("expedite"),
                                 Chars(Get(matched_rules[i].action, "queue", "")))]

\* self._plan_steps(request_id)
HttpPlanSteps(request_id) == HttpPlanStepsOn(requests, rules, request_id)

-----------------------------------------------------------------------------
(* Decision recorder: KaedimMCPServer._record_decision *)

\* a record whose status is kept only when it is one of the three outcomes
NewDecisionValidated(n, request_id, decision_data) ==
    [id |-> n,
     request_id |-> request_id,
     validation_result |-> Get(decision_data, "validation_result", EmptyDict),
     plan |-> Get(decision_data, "plan", EmptyDict),
     assignment |-> Get(decision_data, "assignment", EmptyDict),
     trace |-> Get(decision_data, "trace", <<>>),
     status |-> IF Get(decision_data, "status", "unknown")
                      \in {"success", "validation_failed", "assignment_failed"}
                THEN decision_data["status"] ELSE "unknown"]

\* the Decision built from decision_data; uuid4 ids are modelled by the
\* ordinal of the record, which no earlier record carries
NewDecision(n, request_id, decision_data) ==
    [id |-> n,
     request_id |-> request_id,
     validation_result |-> Get(decision_data, "validation_result", EmptyDict),
     plan |-> Get(decision_data, "plan", EmptyDict),
     assignment |-> Get(decision_data, "assignment", EmptyDict),
     trace |-> Get(decision_data, "trace", <<>>),
     status |-> Get(decision_data, "status", "unknown")]

\* the new record put in front of the list
RecordDecisionPrepend(decs, request_id, decision_data) ==
    <<NewDecision(Len(decs) + 1, request_id, decision_data)>> \o decs

\* self.decisions after _record_decision(request_id, decision_data)
RecordDecision(decs, request_id, decision_data) ==
    Append(decs, NewDecision(Len(decs) + 1, request_id, decision_data))

-----------------------------------------------------------------------------
(* Snapshots the server is started on *)

RequestIds == {"req-1", "req-2", "does-not-exist"}

Req1 == [id |-> "req-1", account |-> "acme", style |-> "lowpoly",
         engine |-> "Unity", priority |-> "rush"]

Req2 == [id |-> "req-2", account |-> "bluenova", style |-> "low_poly",
         engine |-> "unreal", topology |-> "quad", priority |-> "standard"]

RuleRush == ("if" :> [priority |-> "rush"])
            @@ ("then" :> [steps |-> <<"expedite_review">>, queue |-> "expedite"])

RuleQuad == ("if" :> [engine |-> "unreal", topology |-> "quad"])
            @@ ("then" :> [steps |-> <<"retopology", "expedite_review">>])

PresetOk == [naming |-> [pattern |-> "{asset}_{lod}"],
             packing |-> [r |-> "ao", g |-> "metallic", b |-> "roughness",
                          a |-> "emissive"],
             version |-> "1"]

PresetNoAlpha == [naming |-> [pattern |-> "{asset}_{lod}"],
                  packing |-> [r |-> "ao", g |-> "metallic", b |-> "roughness"],
                  version |-> "2"]

SkillPool == {<<"lowpoly", "unity">>, <<"low poly", "PBR">>}

ArtistId(i) == CASE i = 1 -> "a-1" [] i = 2 -> "a-2" [] i = 3 -> "a-3"
                 [] i = 4 -> "a-4" [] OTHER -> "a-5"

Capacities == {1, 2}
Loads == {0, 1, 2}

\* artists that are idle or full
ArtistProfiles ==
    {p \in [skills : SkillPool, capacity_concurrent : Capacities,
            active_load : Loads] : p.active_load \in {0, p.capacity_concurrent}}

\* rosters of at most n artists with distinct ids
Rosters(n) ==
    UNION {{[i \in 1..k |->
                [id |-> ArtistId(i), name |-> ArtistId(i), skills |-> f[i].skills,
                 capacity_concurrent |-> f[i].capacity_concurrent,
                 active_load |-> f[i].active_load]] :
            f \in [1..k -> ArtistProfiles]} : k \in 0..n}

NoReply == [tool |-> "none"]
NoFinish == [emitted |-> FALSE]

\* the client before process_all_requests
ClientIdle ==
    /\ agent = "none"
    /\ max_steps = 0
    /\ pc = "off"
    /\ idx = 1
    /\ step = 0
    /\ state = EmptyDict
    /\ observations = <<>>
    /\ fin = NoFinish
    /\ trace = <<>>
    /\ calls = <<>>
    /\ faults = FALSE
    /\ produced = <<>>
    /\ failed = <<>>

-----------------------------------------------------------------------------
(* The assignment engine called directly (handle_call_tool, assign_artist) *)

InitAssign ==
    /\ requests \in {<<Req1>>, <<Req2>>}
    /\ artists \in Rosters(MaxArtists)
    /\ presets = [acme |-> PresetOk, bluenova |-> PresetOk]
    /\ rules = <<RuleRush>>
    /\ decisions = <<>>
    /\ reply = NoReply
    /\ history = <<>>
    /\ ClientIdle

\* handle_call_tool("assign_artist", {"request_id": request_id})
CallAssignArtist(request_id) ==
    /\ pc = "off"
    /\ reply' = [tool |-> "assign_artist", request_id |-> request_id,
                 result |-> AssignArtist(request_id)]
    /\ UNCHANGED <<snapshot, decisions, history, clientVars>>

NextAssign ==
    \E request_id \in {requests[1].id, "does-not-exist"} :
        CallAssignArtist(request_id)

SpecAssign == InitAssign /\ [][NextAssign]_vars

-----------------------------------------------------------------------------
(* The planning engine called directly (handle_call_tool, plan_steps) *)

\* a request without a topology field
Req3 == [id |-> "req-3", account |-> "acme", style |-> "lowpoly",
         engine |-> "unreal", priority |-> "rush"]

\* a rule whose queue marker contains, but is not, "expedite"
RuleExpediteNow == ("if" :> [priority |-> "rush"])
                   @@ ("then" :> [queue |-> "expedite_now"])

\* a rule without conditions, whose steps include a default step
RuleAll == ("then" :> [steps |-> <<"qa_check", "retopology">>,
                       queue |-> "standard"])

RulePool == {RuleRush, RuleQuad, RuleExpediteNow, RuleAll}

\* rule lists of at most n rules of the pool
RuleLists(n) == UNION {[1..k -> RulePool] : k \in 0..n}

InitPlan ==
    /\ requests \in {<<Req1>>, <<Req2>>, <<Req3>>}
    /\ artists = <<>>
    /\ presets = [acme |-> PresetOk, bluenova |-> PresetOk]
    /\ rules \in RuleLists(MaxRules)
    /\ decisions = <<>>
    /\ reply = NoReply
    /\ history = <<>>
    /\ ClientIdle

\* handle_call_tool("plan_steps", {"request_id": request_id})
CallPlanSteps(request_id) ==
    /\ pc = "off"
    /\ reply' = [tool |-> "plan_steps", request_id |-> request_id,
                 result |-> PlanSteps(request_id)]
    /\ UNCHANGED <<snapshot, decisions, history, clientVars>>

NextPlan ==
    \E request_id \in {requests[1].id, "does-not-exist"} :
        CallPlanSteps(request_id)

SpecPlan == InitPlan /\ [][NextPlan]_vars

-----------------------------------------------------------------------------
(* The validation engine called directly (handle_call_tool, validate_preset) *)

PresetExtra == [naming |-> [pattern |-> "{asset}"],
                packing |-> [r |-> "ao", g |-> "metallic", b |-> "roughness",
                             a |-> "emissive", x |-> "height"],
                version |-> "3"]

PresetOnlyRed == [naming |-> [pattern |-> "{asset}_{lod}"],
                  packing |-> [r |-> "ao"],
                  version |-> "1"]

PresetNoPacking == [naming |-> [pattern |-> "{asset}_{lod}"], version |-> "1"]

PresetEmptyPattern == [naming |-> [pattern |-> ""],
                       packing |-> [r |-> "ao", g |-> "metallic",
                                    b |-> "roughness", a |-> "emissive"],
                       version |-> "1"]

PresetNamingNoPattern == [naming |-> EmptyDict,
                          packing |-> [r |-> "ao", g |-> "metallic",
                                       b |-> "roughness", a |-> "emissive"]]

PresetNoNaming == [packing |-> [r |-> "ao", g |-> "metallic", b |-> "roughness",
                                a |-> "emissive"],
                   version |-> "1"]

PresetNoVersion == [naming |-> [pattern |-> "{asset}_{lod}"],
                    packing |-> [r |-> "ao", g |-> "metallic", b |-> "roughness",
                                 a |-> "emissive"]]

PresetPool == {PresetOk, PresetExtra, PresetNoAlpha, PresetOnlyRed,
               PresetNoPacking, PresetEmptyPattern, PresetNamingNoPattern,
               PresetNoNaming, PresetNoVersion, EmptyDict}

InitValidate ==
    /\ requests \in {<<Req1>>, <<Req1, Req2>>}
    /\ artists = <<>>
    /\ presets \in {[acme |-> p] : p \in PresetPool}
    /\ rules = <<>>
    /\ decisions = <<>>
    /\ reply = NoReply
    /\ history = <<>>
    /\ ClientIdle

\* handle_call_tool("validate_preset", {request_id, account_id})
CallValidatePreset(request_id, account_id) ==
    /\ pc = "off"
    /\ reply' = [tool |-> "validate_preset", request_id |-> request_id,
                 account_id |-> account_id,
                 result |-> ValidatePreset(request_id, account_id),
                 events |-> <<[type |-> "tool.called"]>>
                            \o ValidateEvents(requests, presets, request_id,
                                              account_id)
                            \o <<[type |-> "tool.completed"]>>]
    /\ UNCHANGED <<snapshot, decisions, history, clientVars>>

NextValidate ==
    \E request_id \in RequestIds, account_id \in {"acme", "bluenova"} :
        CallValidatePreset(request_id, account_id)

SpecValidate == InitValidate /\ [][NextValidate]_vars

-----------------------------------------------------------------------------
(* The server called directly: handle_call_tool and handle_read_resource *)

\* an artist with one free slot and skills matching Req1
ArtistNearFull == [id |-> "a-1", name |-> "Ada", skills |-> <<"lowpoly", "unity">>,
                   capacity_concurrent |-> 2, active_load |-> 1]

\* an idle artist without a skill matching Req1
ArtistIdle == [id |-> "a-2", name |-> "Ben", skills |-> <<"low poly", "PBR">>,
               capacity_concurrent |-> 2, active_load |-> 0]

\* self.artists after an assignment that books the selected artist
ArtistsAfterAssignBooked(roster, result) ==
    ListOf([i \in 1..Len(roster) |->
               IF roster[i].id = result.artist_id
               THEN [roster[i] EXCEPT !.active_load = @ + 1]
               ELSE roster[i]])

\* self.artists after _assign_artist: the method reads self.artists and
\* writes nothing back
ArtistsAfterAssign(roster, result) == roster

\* self.presets after a lookup that removes the preset (dict.pop)
PresetsAfterValidatePop(prs, account_id) ==
    [k \in DOMAIN prs \ {account_id} |-> prs[k]]

\* self.presets after _validate_preset: self.presets.get(account_id, {})
\* neither inserts nor removes
PresetsAfterValidate(prs, account_id) == prs

ResourceUris == {"resource://requests", "resource://artists",
                 "resource://presets", "resource://rules"}

\* resource_map[uri_str]
ResourceMap(uri) ==
    CASE uri = "resource://requests" -> requests
      [] uri = "resource://artists" -> artists
      [] uri = "resource://presets" -> presets
      [] uri = "resource://rules" -> rules

InitServer ==
    /\ requests = <<Req1, Req2>>
    /\ artists = <<ArtistNearFull, ArtistIdle>>
    /\ presets \in {[acme |-> PresetOk], [acme |-> PresetNoAlpha]}
    /\ rules = <<RuleRush, RuleQuad>>
    /\ decisions = <<>>
    /\ reply = NoReply
    /\ history = <<>>
    /\ ClientIdle

\* the server answers one more direct call
Answer(entry) ==
    /\ pc = "off"
    /\ Len(history) < MaxCalls
    /\ reply' = entry
    /\ history' = Append(history, entry)

\* handle_call_tool("validate_preset", {request_id, account_id})
HandleValidatePreset(request_id, account_id) ==
    /\ Answer([tool |-> "validate_preset", request_id |-> request_id,
               account_id |-> account_id,
               result |-> ValidatePreset(request_id, account_id)])
    /\ presets' = PresetsAfterValidate(presets, account_id)
    /\ UNCHANGED <<requests, artists, rules, decisions, clientVars>>

\* handle_call_tool("plan_steps", {request_id})
HandlePlanSteps(request_id) ==
    /\ Answer([tool |-> "plan_steps", request_id |-> request_id,
               result |-> PlanSteps(request_id)])
    /\ UNCHANGED <<snapshot, decisions, clientVars>>

\* handle_call_tool("assign_artist", {request_id})
HandleAssignArtist(request_id) ==
    LET result == AssignArtist(request_id)
    IN /\ Answer([tool |-> "assign_artist", request_id |-> request_id,
                  result |-> result])
       /\ artists' = ArtistsAfterAssign(artists, result)
       /\ UNCHANGED <<requests, presets, rules, decisions, clientVars>>

\* handle_call_tool("record_decision", {request_id, decision})
HandleRecordDecision(request_id, decision_data) ==
    LET decision == NewDecision(Len(decisions) + 1, request_id, decision_data)
    IN /\ Answer([tool |-> "record_decision", request_id |-> request_id,
                  decision |-> decision_data,
                  result |-> [decision_id |-> decision.id, recorded_at |-> "now",
                              status |-> decision.status]])
       /\ decisions' = RecordDecision(decisions, request_id, decision_data)
       /\ UNCHANGED <<snapshot, clientVars>>

\* the tools that run an engine
EngineTools == {"validate_preset", "plan_steps", "assign_artist"}

\* the two servers: mcp_server.py (stdio) and mcp_server_http.py (HTTP)
Servers == {"stdio", "http"}

\* an unknown tool reported as an internal error
UnknownToolFaultWrapped(server) ==
    IF server = "stdio" THEN [exception |-> "ValueError"]
    ELSE [status_code |-> 500]

\* raise ValueError / HTTPException(status_code=400) for an unknown tool
UnknownToolFault(server) ==
    IF server = "stdio" THEN [exception |-> "ValueError"]
    ELSE [status_code |-> 400]

\* raise RuntimeError / HTTPException(status_code=404) for an unknown uri
UnknownResourceFault(server) ==
    IF server = "stdio" THEN [exception |-> "RuntimeError"]
    ELSE [status_code |-> 404]

\* handle_read_resource(uri): the data, or a fault for an unknown uri
HandleReadResource(server, uri) ==
    /\ Answer(IF uri \in ResourceUris
              THEN [tool |-> "read_resource", uri |-> uri, raised |-> FALSE,
                    result |-> ResourceMap(uri)]
              ELSE [tool |-> "read_resource", uri |-> uri, raised |-> TRUE,
                    server |-> server, fault |-> UnknownResourceFault(server)])
    /\ UNCHANGED <<snapshot, decisions, clientVars>>

\* handle_call_tool(name, ...) for a name that is none of the four tools
HandleUnknownTool(server, name) ==
    /\ name \notin EngineTools \cup {"record_decision"}
    /\ Answer([tool |-> name, raised |-> TRUE, server |-> server,
               fault |-> UnknownToolFault(server)])
    /\ UNCHANGED <<snapshot, decisions, clientVars>>

\* request ids and payloads given to record_decision
RecordInputs == {<<"req-1", [status |-> "success"]>>,
                 <<"does-not-exist", [status |-> "test", rationale |-> "none"]>>,
                 <<"req-1", EmptyDict>>}

NextServer ==
    \/ \E request_id \in {"req-1", "does-not-exist"}, account_id \in {"acme", "bluenova"} :
           HandleValidatePreset(request_id, account_id)
    \/ \E request_id \in {"req-1", "does-not-exist"} : HandlePlanSteps(request_id)
    \/ \E request_id \in {"req-1", "does-not-exist"} : HandleAssignArtist(request_id)
    \/ \E input \in RecordInputs : HandleRecordDecision(input[1], input[2])
    \/ \E server \in Servers, uri \in {"resource://artists", "resource://unknown"} :
           HandleReadResource(server, uri)
    \/ \E server \in Servers : HandleUnknownTool(server, "noop")

SpecServer == InitServer /\ [][NextServer]_vars

-----------------------------------------------------------------------------
(* The two servers given the same call: handle_call_tool of mcp_server.py  *)
(* and call_tool of mcp_server_http.py over the same snapshot              *)

\* the outcome of a call: the value returned, or the fault raised
Returns(result) == [raised |-> FALSE, result |-> result]
Raises(fault) == [raised |-> TRUE, fault |-> fault]

\* arguments[key] of every key in keys does not raise KeyError
HasArguments(arguments, keys) == keys \subseteq DOMAIN arguments

\* the keys that the branch of a tool reads from arguments
ArgumentKeys(name) ==
    CASE name = "validate_preset" -> {"request_id", "account_id"}
      [] name \in {"plan_steps", "assign_artist"} -> {"request_id"}
      [] name = "record_decision" -> {"request_id", "decision"}
      [] OTHER -> {}

\* the result of _record_decision when the list holds n decisions
RecordResult(n, arguments) ==
    LET decision == NewDecision(n + 1, arguments.request_id, arguments.decision)
    IN [decision_id |-> decision.id, recorded_at |-> "now",
        status |-> decision.status]

\* handle_call_tool(name, arguments) of mcp_server.py: an exception of the
\* branch (KeyError, ValueError) is raised again by the except clause
StdioCallTool(name, arguments) ==
    IF name \notin EngineTools \cup {"record_decision"}
    THEN Raises(UnknownToolFault("stdio"))
    ELSE IF ~HasArguments(arguments, ArgumentKeys(name))
    THEN Raises([exception |-> "KeyError"])
    ELSE CASE name = "validate_preset" ->
                  Returns(ValidatePreset(arguments.request_id, arguments.account_id))
           [] name = "plan_steps" -> Returns(PlanSteps(arguments.request_id))
           [] name = "assign_artist" -> Returns(AssignArtist(arguments.request_id))
           [] name = "record_decision" ->
                  Returns(RecordResult(Len(decisions), arguments))

\* call_tool of the HTTP server that answers an unknown tool with an empty
\* result
HttpCallToolLenient(name, arguments) ==
    IF name \notin EngineTools \cup {"record_decision"}
    THEN Returns(EmptyDict)
    ELSE IF ~HasArguments(arguments, ArgumentKeys(name))
    THEN Raises([status_code |-> 500])
    ELSE CASE name = "validate_preset" ->
                  Returns(HttpValidatePreset(arguments.request_id,
                                             arguments.account_id))
           [] name = "plan_steps" -> Returns(HttpPlanSteps(arguments.request_id))
           [] name = "assign_artist" ->
                  Returns(HttpAssignArtist(arguments.request_id))
           [] name = "record_decision" ->
                  Returns(RecordResult(Len(decisions), arguments))

\* call_tool(name, arguments) of mcp_server_http.py: HTTPException(400) for
\* an unknown tool, HTTPException(500) for any other exception of the branch
HttpCallTool(name, arguments) ==
    IF name \notin EngineTools \cup {"record_decision"}
    THEN Raises(UnknownToolFault("http"))
    ELSE IF ~HasArguments(arguments, ArgumentKeys(name))
    THEN Raises([status_code |-> 500])
    ELSE CASE name = "validate_preset" ->
                  Returns(HttpValidatePreset(arguments.request_id,
                                             arguments.account_id))
           [] name = "plan_steps" -> Returns(HttpPlanSteps(arguments.request_id))
           [] name = "assign_artist" ->
                  Returns(HttpAssignArtist(arguments.request_id))
           [] name = "record_decision" ->
                  Returns(RecordResult(Len(decisions), arguments))

\* handle_read_resource(uri) of mcp_server.py
StdioReadResource(uri) ==
    IF uri \in ResourceUris THEN Returns(ResourceMap(uri))
    ELSE Raises(UnknownResourceFault("stdio"))

\* read_resource(uri) of mcp_server_http.py
HttpReadResource(uri) ==
    IF uri \in ResourceUris THEN Returns(ResourceMap(uri))
    ELSE Raises(UnknownResourceFault("http"))

\* the snapshots that both servers are started on
TransportRosters == {<<ArtistNearFull, ArtistIdle>>, <<ArtistIdle, ArtistNearFull>>,
                     <<>>}
TransportRules == {<<RuleRush, RuleQuad>>, <<RuleAll, RuleExpediteNow>>, <<>>}

InitTransports ==
    /\ requests = <<Req1, Req2>>
    /\ artists \in TransportRosters
    /\ presets \in {[acme |-> p, bluenova |-> PresetOk] : p \in PresetPool}
    /\ rules \in TransportRules
    /\ decisions = <<>>
    /\ reply = NoReply
    /\ history = <<>>
    /\ ClientIdle

\* the names and arguments of the calls sent to both servers
ToolCalls ==
    {<<"validate_preset", [request_id |-> r, account_id |-> a]>> :
         r \in RequestIds, a \in {"acme", "bluenova", "unknown"}}
    \cup {<<name, [request_id |-> r]>> :
              name \in {"validate_preset", "plan_steps", "assign_artist",
                        "record_decision", "noop", "read_resource", ""},
              r \in RequestIds}
    \cup {<<"plan_steps", EmptyDict>>}

\* one call of a tool sent to the stdio server and to the HTTP server
CallBoth(name, arguments) ==
    /\ pc = "off"
    /\ reply' = [tool |-> name, arguments |-> arguments,
                 stdio |-> StdioCallTool(name, arguments),
                 http |-> HttpCallTool(name, arguments)]
    /\ UNCHANGED <<snapshot, decisions, history, clientVars>>

\* record_decision sent to both servers, each of which appends to its list
RecordBoth(request_id, decision_data) ==
    LET arguments == [request_id |-> request_id, decision |-> decision_data]
    IN /\ pc = "off"
       /\ Len(decisions) < MaxCalls
       /\ reply' = [tool |-> "record_decision", arguments |-> arguments,
                    stdio |-> StdioCallTool("record_decision", arguments),
                    http |-> HttpCallTool("record_decision", arguments)]
       /\ decisions' = RecordDecision(decisions, request_id, decision_data)
       /\ UNCHANGED <<snapshot, history, clientVars>>

\* one resource read sent to both servers
ReadBoth(uri) ==
    /\ pc = "off"
    /\ reply' = [tool |-> "read_resource", uri |-> uri,
                 stdio |-> StdioReadResource(uri),
                 http |-> HttpReadResource(uri)]
    /\ UNCHANGED <<snapshot, decisions, history, clientVars>>

NextTransports ==
    \/ \E call \in ToolCalls : CallBoth(call[1], call[2])
    \/ RecordBoth("req-1", [status |-> "success"])
    \/ \E uri \in ResourceUris \cup {"resource://unknown", "resource://decisions", ""} :
           ReadBoth(uri)

SpecTransports == InitTransports /\ [][NextTransports]_vars

-----------------------------------------------------------------------------
(* Caller sessions of the HTTP server: the route call_tool of               *)
(* mcp_server_http.py is a coroutine per request; it is suspended while the *)
(* request is read and while the response is written, and the body of       *)
(* KaedimMCPServer.call_tool awaits only coroutines that never suspend      *)

Sessions == 1..MaxSessions

\* the snapshot the server of the sessions is started on
SessionRequests == <<Req1, Req2>>
SessionArtists == <<ArtistNearFull, ArtistIdle>>
SessionPresets == [acme |-> PresetNoAlpha]
SessionRules == <<RuleRush, RuleQuad>>

SessionIdle == [at |-> "idle"]

InitSessions ==
    /\ requests = SessionRequests
    /\ artists = SessionArtists
    /\ presets = SessionPresets
    /\ rules = SessionRules
    /\ decisions = <<>>
    /\ reply = [s \in Sessions |-> SessionIdle]
    /\ history = <<>>
    /\ ClientIdle

\* the calls of record_decision that are read or recorded
RecordsStarted ==
    Len(history) + Cardinality({s \in Sessions :
                                    /\ reply[s].at = "read"
                                    /\ reply[s].tool = "record_decision"})

\* the route has read the body of a request of session s and is about to call
\* KaedimMCPServer.call_tool
ReadRequest(s, name, arguments) ==
    /\ pc = "off"
    /\ reply[s].at = "idle"
    /\ name = "record_decision" => RecordsStarted < MaxCalls
    /\ reply' = [reply EXCEPT ![s] = [at |-> "read", tool |-> name,
                                      arguments |-> arguments]]
    /\ UNCHANGED <<snapshot, decisions, history, clientVars>>

\* KaedimMCPServer.call_tool runs for session s up to its return
RunCallTool(s) ==
    LET call == reply[s]
        out == HttpCallTool(call.tool, call.arguments)
    IN /\ pc = "off"
       /\ call.at = "read"
       /\ reply' = [reply EXCEPT ![s] = [at |-> "done", tool |-> call.tool,
                                         arguments |-> call.arguments,
                                         outcome |-> out]]
       /\ artists' = IF call.tool = "assign_artist" /\ ~out.raised
                     THEN ArtistsAfterAssign(artists, out.result) ELSE artists
       /\ presets' = IF call.tool = "validate_preset" /\ ~out.raised
                     THEN PresetsAfterValidate(presets, call.arguments.account_id)
                     ELSE presets
       /\ decisions' = IF call.tool = "record_decision" /\ ~out.raised
                       THEN RecordDecision(decisions, call.arguments.request_id,
                                           call.arguments.decision)
                       ELSE decisions
       /\ history' = IF call.tool = "record_decision" /\ ~out.raised
                     THEN Append(history, [session |-> s,
                                           arguments |-> call.arguments,
                                           result |-> out.result])
                     ELSE history
       /\ UNCHANGED <<requests, rules, clientVars>>

\* the response of session s has been written
WriteResponse(s) ==
    /\ pc = "off"
    /\ reply[s].at = "done"
    /\ reply' = [reply EXCEPT ![s] = SessionIdle]
    /\ UNCHANGED <<snapshot, decisions, history, clientVars>>

\* the calls that the sessions make
SessionCalls ==
    {<<"validate_preset", [request_id |-> "req-1", account_id |-> "acme"]>>,
     <<"plan_steps", [request_id |-> "req-1"]>>,
     <<"assign_artist", [request_id |-> "req-1"]>>,
     <<"record_decision", [request_id |-> "req-1",
                           decision |-> [status |-> "success"]]>>}

NextSessions ==
    \E s \in Sessions :
        \/ \E call \in SessionCalls : ReadRequest(s, call[1], call[2])
        \/ RunCallTool(s)
        \/ WriteResponse(s)

SpecSessions == InitSessions /\ [][NextSessions]_vars

-----------------------------------------------------------------------------
(* The clients: run_agent.py, run_agent_http.py, run_agent_mcp_client.py *)

\* stdio_det   run_agent.MCPAgent (and LLMEnhancedMCPAgent without llm_client)
\* stdio_llm   run_agent.LLMEnhancedMCPAgent with an llm_client
\* http_det    run_agent_http.MCPAgent
\* http_llm    run_agent_http.LLMEnhancedMCPAgent with an llm_client
\* http_nollm  run_agent_http.LLMEnhancedMCPAgent without llm_client
\* client_det  run_agent_mcp_client.MCPAgent
\* client_llm  run_agent_mcp_client.LLMEnhancedMCPAgent with an llm_client
DetAgents == {"stdio_det", "http_det", "client_det", "client_llm"}
LoopAgents == {"stdio_llm", "http_llm", "http_nollm"}
Agents == DetAgents \cup LoopAgents

\* the request process_request is working on
CurrentRequest == requests[idx]

validation_result == Get(state, "validation_result", EmptyDict)
plan_result == Get(state, "plan_result", EmptyDict)
assignment_result == Get(state, "assignment_result", EmptyDict)

\* the key of state that holds the result of an engine tool
StateKey(tool) ==
    CASE tool = "validate_preset" -> "validation_result"
      [] tool = "plan_steps" -> "plan_result"
      [] tool = "assign_artist" -> "assignment_result"

\* what the server returns for an engine tool called for the current request
ToolResult(tool) ==
    CASE tool = "validate_preset" ->
             ValidatePreset(CurrentRequest.id, CurrentRequest.account)
      [] tool = "plan_steps" -> PlanSteps(CurrentRequest.id)
      [] tool = "assign_artist" -> AssignArtist(CurrentRequest.id)

\* d[k] = v for a dict d
Put(d, k, v) == [x \in (DOMAIN d) \cup {k} |-> IF x = k THEN v ELSE d[x]]

\* validation.get("ok", False) / validation.get("ok")
IsOk(validation) == Get(validation, "ok", FALSE)

\* bool(assignment.get("artist_id"))
HasArtist(assignment) == Get(assignment, "artist_id", None) # None

\* the texts of the errors of a validation result
ErrorTexts(validation) ==
    LET errs == Get(validation, "errors", <<>>)
    IN {errs[i].text : i \in 1..Len(errs)}

\* validation.get("errors", [])
Errors(validation) == Get(validation, "errors", <<>>)

\* phrase in e, for an error e.  The phrases of the taxonomy are looked for in
\* the fixed text of the message; what follows the colon is e.detail.
Contains(e, phrase) == IsSubstring(Chars(phrase), Chars(e.text))

\* phrase in e.lower()
ContainsLow(e, phrase) == IsSubstring(Chars(phrase), Lower(Chars(e.text)))

\* whether some error passes the test
AnyError(errs, Test(_)) == \E i \in 1..Len(errs) : Test(errs[i])

\* the last error that passes the test
LastError(errs, Test(_)) ==
    errs[CHOOSE i \in 1..Len(errs) :
            /\ Test(errs[i])
            /\ \A j \in (i + 1)..Len(errs) : ~Test(errs[j])]

\* run_agent.MCPAgent._customer_message_from_validation; the texts stand for
\* the f-strings, without the account and the errors formatted into them
StdioCustomerMessage(validation) ==
    LET errs == Errors(validation)
    IN IF IsOk(validation) THEN ""
       ELSE IF Len(errs) = 0 THEN "Validation failed. Please review your preset."
       ELSE IF AnyError(errs, LAMBDA e : Contains(e, "Missing texture channels"))
            THEN "Configuration issue: texture packing incomplete"
       ELSE IF AnyError(errs, LAMBDA e :
                            Contains(e, "No texture packing configuration found"))
            THEN "Validation error: No texture packing configuration found"
       ELSE "Validation error: errors"

\* run_agent.MCPAgent._clarifying_question_from_validation
StdioClarifyingQuestion(validation) ==
    IF IsOk(validation) THEN None
    ELSE IF AnyError(Errors(validation),
                     LAMBDA e : Contains(e, "Missing texture channels"))
         THEN "Apply default channel mappings now, or wait for your preset update?"
    ELSE "Would you like help updating your preset?"

IsMissingChannels(e) == ContainsLow(e, "missing texture channels")
IsEngineUnsupported(e) ==
    ContainsLow(e, "unsupported engine") \/ ContainsLow(e, "engine not supported")
IsUnsupportedMap(e) ==
    (ContainsLow(e, "unsupported map") \/ ContainsLow(e, "unsupported texture"))
        /\ e.detail # <<>>
IsMapConflict(e) ==
    ContainsLow(e, "conflicting maps") \/ ContainsLow(e, "map conflict")
IsVersionMissing(e) ==
    \/ ContainsLow(e, "preset version not specified")
    \/ ContainsLow(e, "version") /\ ContainsLow(e, "not") /\ ContainsLow(e, "specified")
IsRgba(c) == c \in {"r", "g", "b", "a"}

\* run_agent_http.MCPAgent._parse_validation_errors.  An error without detail
\* is a message without colon.  engine_unsupported is None, the engine named
\* after the colon, or "True".
ParseValidationErrors(validation) ==
    LET errs == Errors(validation)
    IN [missing_channels |->
            IF ~AnyError(errs, IsMissingChannels) THEN <<>>
            ELSE LET e == LastError(errs, IsMissingChannels)
                 IN IF e.detail = <<>> THEN <<"r", "g", "b", "a">>
                    ELSE SelectSeq(e.detail, IsRgba),
        no_packing |->
            AnyError(errs, LAMBDA e : ContainsLow(e, "no texture packing configuration")),
        version_missing |-> AnyError(errs, IsVersionMissing),
        engine_missing |->
            AnyError(errs, LAMBDA e : \/ ContainsLow(e, "engine not specified")
                                      \/ ContainsLow(e, "missing engine")),
        engine_unsupported |->
            IF ~AnyError(errs, IsEngineUnsupported) THEN None
            ELSE LET e == LastError(errs, IsEngineUnsupported)
                 IN IF e.detail = <<>> THEN "True" ELSE e.detail[1],
        unsupported_maps |-> SelectSeq(errs, IsUnsupportedMap),
        map_conflicts |-> SelectSeq(errs, IsMapConflict),
        topology_quad_only |->
            AnyError(errs, LAMBDA e : \/ ContainsLow(e, "quad only")
                                      \/ ContainsLow(e, "quad-only")),
        uv_missing |->
            AnyError(errs, LAMBDA e : \/ ContainsLow(e, "missing uvs")
                                      \/ ContainsLow(e, "uvs not found")),
        uv_overlap |->
            AnyError(errs, LAMBDA e : \/ ContainsLow(e, "uv overlap")
                                      \/ ContainsLow(e, "overlapping uvs")),
        size_exceeds |->
            AnyError(errs, LAMBDA e : \/ ContainsLow(e, "exceeds max texture size")
                                      \/ ContainsLow(e, "texture too large")),
        polycount_exceeds |->
            AnyError(errs, LAMBDA e : \/ ContainsLow(e, "exceeds polycount")
                                      \/ ContainsLow(e, "polycount too high"))]

\* bool(info.get("engine_unsupported"))
EngineUnsupported(info) == info.engine_unsupported \notin {None, ""}

\* the cascade of the customer message with the bucket of the missing channels
\* tested before the buckets of the missing packing
HttpMessageOfChannelsFirst(info) ==
    IF Len(info.missing_channels) > 0
    THEN "Your texture packing is missing channel(s)"
    ELSE IF info.no_packing /\ info.version_missing
    THEN "No texture packing configuration found and no preset version specified"
    ELSE IF info.no_packing THEN "No texture packing configuration found"
    ELSE "Validation error: errors"

\* the cascade of _customer_message_from_validation of run_agent_http.py; the
\* texts stand for the messages, without the values formatted into them
HttpMessageOf(info) ==
    IF info.no_packing /\ info.version_missing
    THEN "No texture packing configuration found and no preset version specified"
    ELSE IF info.no_packing THEN "No texture packing configuration found"
    ELSE IF Len(info.missing_channels) > 0
    THEN "Your texture packing is missing channel(s)"
    ELSE IF Len(info.unsupported_maps) > 0
    THEN "One or more requested texture maps are not supported"
    ELSE IF Len(info.map_conflicts) > 0
    THEN "There are conflicting map assignments in your preset"
    ELSE IF info.engine_missing THEN "Target engine is not specified"
    ELSE IF EngineUnsupported(info) THEN "The selected engine is not supported"
    ELSE IF info.topology_quad_only THEN "The preset enforces quad-only topology"
    ELSE IF info.uv_missing THEN "The model is missing UVs"
    ELSE IF info.uv_overlap THEN "The model has overlapping UVs"
    ELSE IF info.size_exceeds THEN "One or more textures exceed the maximum supported size"
    ELSE IF info.polycount_exceeds THEN "The mesh exceeds the permitted polycount"
    ELSE "Validation error: errors"

\* run_agent_http.MCPAgent._customer_message_from_validation
HttpCustomerMessage(validation) ==
    IF IsOk(validation) THEN ""
    ELSE HttpMessageOf(ParseValidationErrors(validation))

\* the cascade of _clarifying_question_from_validation of run_agent_http.py
HttpQuestionOf(info) ==
    IF Len(info.missing_channels) > 0 THEN "Should we apply a default mapping?"
    ELSE IF info.no_packing THEN "Apply a standard packing template?"
    ELSE IF info.version_missing THEN "Assume the latest preset version?"
    ELSE IF Len(info.unsupported_maps) > 0 THEN "Drop the unsupported maps or substitute?"
    ELSE IF Len(info.map_conflicts) > 0 THEN "Auto-resolve the conflicting map assignments?"
    ELSE IF info.engine_missing THEN "Which engine should we target?"
    ELSE IF EngineUnsupported(info) THEN "Switch to a supported engine?"
    ELSE IF info.topology_quad_only THEN "Enforce quad-only by retopologizing?"
    ELSE IF info.uv_missing THEN "Auto-unwrap UVs?"
    ELSE IF info.uv_overlap THEN "Auto-fix overlapping UVs?"
    ELSE IF info.size_exceeds THEN "Downscale oversized textures?"
    ELSE IF info.polycount_exceeds THEN "Decimate the mesh to the target polycount?"
    ELSE "Apply sensible defaults now, or wait for your preset update?"

\* run_agent_http.MCPAgent._clarifying_question_from_validation
HttpClarifyingQuestion(validation) ==
    IF IsOk(validation) THEN None
    ELSE HttpQuestionOf(ParseValidationErrors(validation))

\* run_agent_mcp_client.MCPAgent.generate_error_message
ClientCustomerMessage(validation) ==
    LET errs == Errors(validation)
    IN IF AnyError(errs, LAMBDA e : Contains(e, "Missing texture channels"))
       THEN "Configuration issue: texture packing is incomplete"
       ELSE IF Len(errs) > 0
            THEN "Validation error: first error"
            ELSE "Validation error: Unknown issue"

\* run_agent_mcp_client.MCPAgent.generate_clarifying_question
ClientClarifyingQuestion(validation) ==
    IF AnyError(Errors(validation), LAMBDA e : ContainsLow(e, "texture channels"))
    THEN "Should we use default channel mappings or wait for your configuration?"
    ELSE "Would you like help updating your preset?"

CustomerMessage(validation) ==
    CASE agent \in {"stdio_det", "stdio_llm"} -> StdioCustomerMessage(validation)
      [] agent \in {"http_det", "http_llm", "http_nollm"} -> HttpCustomerMessage(validation)
      [] OTHER -> ClientCustomerMessage(validation)

ClarifyingQuestion(validation) ==
    CASE agent \in {"stdio_det", "stdio_llm"} -> StdioClarifyingQuestion(validation)
      [] agent \in {"http_det", "http_llm", "http_nollm"} -> HttpClarifyingQuestion(validation)
      [] OTHER -> ClientClarifyingQuestion(validation)

\* the client-side Decision dataclass
Decision(status, customer_message, clarifying_question, validation, plan, assignment) ==
    [request_id |-> CurrentRequest.id,
     status |-> status,
     customer_message |-> customer_message,
     clarifying_question |-> clarifying_question,
     validation_result |-> validation,
     plan |-> plan,
     assignment |-> assignment,
     trace |-> trace]

\* a {step, result, timestamp} record of the trace
TraceRecord(tool, result) == [step |-> tool, result |-> result]

-----------------------------------------------------------------------------
(* process_all_requests and the deterministic pipelines *)

\* the next iteration of `for r in requests` enters process_request
BeginRequest ==
    /\ pc = "idle"
    /\ idx <= Len(requests)
    /\ pc' = IF agent \in DetAgents THEN "validate" ELSE "loop"
    /\ step' = 0
    /\ state' = EmptyDict
    /\ observations' = <<>>
    /\ fin' = NoFinish
    /\ trace' = <<>>
    /\ calls' = <<>>
    /\ faults' = FALSE
    /\ UNCHANGED <<snapshot, decisions, direct, agent, max_steps, idx, produced, failed>>

\* the record of the newest call put in front of the trace
CallEngineNewestFirst(tool) ==
    /\ state' = Put(state, StateKey(tool), ToolResult(tool))
    /\ trace' = <<TraceRecord(tool, ToolResult(tool))>> \o trace
    /\ calls' = Append(calls, tool)

\* one engine tool is called and its result kept in state and trace
CallEngine(tool) ==
    /\ state' = Put(state, StateKey(tool), ToolResult(tool))
    /\ trace' = Append(trace, TraceRecord(tool, ToolResult(tool)))
    /\ calls' = Append(calls, tool)

\* MCPAgent.process_request, step 1: validate_preset.  run_agent_http.py
\* returns early on a failed validation; the other two clients go on.
DetValidate ==
    /\ pc = "validate"
    /\ CallEngine("validate_preset")
    /\ pc' = IF agent = "http_det" /\ ~IsOk(ToolResult("validate_preset"))
             THEN "finalize" ELSE "plan"
    /\ UNCHANGED <<snapshot, decisions, direct, agent, max_steps, idx, step,
                   observations, fin, faults, produced, failed>>

\* MCPAgent.process_request, step 2: plan_steps
DetPlan ==
    /\ pc = "plan"
    /\ CallEngine("plan_steps")
    /\ pc' = "assign"
    /\ UNCHANGED <<snapshot, decisions, direct, agent, max_steps, idx, step,
                   observations, fin, faults, produced, failed>>

\* MCPAgent.process_request, step 3: assign_artist
DetAssign ==
    /\ pc = "assign"
    /\ CallEngine("assign_artist")
    /\ pc' = "finalize"
    /\ UNCHANGED <<snapshot, decisions, direct, agent, max_steps, idx, step,
                   observations, fin, faults, produced, failed>>

\* the status derived from the two gates
InferStatus(validation, assignment) ==
    IF ~IsOk(validation) THEN "validation_failed"
    ELSE IF ~HasArtist(assignment) THEN "assignment_failed"
    ELSE "success"

\* the Decision of the deterministic pipelines and of the HTTP loop
GatedDecision ==
    LET status == InferStatus(validation_result, assignment_result)
    IN Decision(status,
                CASE status = "validation_failed" -> CustomerMessage(validation_result)
                  [] status = "assignment_failed" ->
                         "Your request is queued and will be assigned soon."
                  [] OTHER -> None,
                CASE status = "validation_failed" -> ClarifyingQuestion(validation_result)
                  [] status = "assignment_failed" -> "Would you like priority processing?"
                  [] OTHER -> None,
                validation_result, plan_result, assignment_result)

\* run_agent.LLMEnhancedMCPAgent.process_request after the loop: the status of
\* the finish arguments, inferred when absent, with the success synonyms
\* normalised
StdioStatus ==
    LET given == IF fin.emitted THEN fin.status ELSE None
        status == IF given = None
                  THEN InferStatus(validation_result, assignment_result)
                  ELSE given
    IN IF status \in {"completed", "ok", "done"}
          /\ IsOk(validation_result) /\ HasArtist(assignment_result)
       THEN "success" ELSE status

\* x or y
OrElse(x, y) == IF x = None \/ x = "" THEN y ELSE x

\* the Decision of the run_agent.py loop
StdioDecision ==
    LET given == IF fin.emitted THEN fin.status ELSE None
        cm0 == IF fin.emitted THEN fin.customer_message ELSE None
        cq0 == IF fin.emitted THEN fin.clarifying_question ELSE None
        inferred == InferStatus(validation_result, assignment_result)
        cm == IF given # None THEN cm0
              ELSE CASE inferred = "validation_failed" ->
                            OrElse(StdioCustomerMessage(validation_result), cm0)
                     [] inferred = "assignment_failed" ->
                            OrElse(cm0, "Your request is queued and will be assigned soon.")
                     [] OTHER -> cm0
        cq == IF given # None THEN cq0
              ELSE CASE inferred = "validation_failed" ->
                            OrElse(StdioClarifyingQuestion(validation_result), cq0)
                     [] inferred = "assignment_failed" ->
                            OrElse(cq0, "Would you like priority processing?")
                     [] OTHER -> cq0
    IN Decision(StdioStatus, cm, cq,
                IF validation_result = EmptyDict THEN [ok |-> FALSE]
                ELSE validation_result,
                plan_result, assignment_result)

\* the end of process_request: the Decision is built, sent to record_decision
\* and returned to process_all_requests, which appends it to self.decisions
Finalize ==
    /\ \/ pc = "finalize"
       \/ pc = "loop" /\ step >= max_steps
    /\ LET decision == IF agent = "stdio_llm" THEN StdioDecision ELSE GatedDecision
       IN /\ decisions' = RecordDecision(decisions, CurrentRequest.id, decision)
          /\ produced' = Append(produced, decision)
    /\ calls' = Append(calls, "record_decision")
    /\ IF agent = "client_llm"
       THEN pc' = "enhance" /\ UNCHANGED idx
       ELSE pc' = "idle" /\ idx' = idx + 1
    /\ UNCHANGED <<snapshot, direct, agent, max_steps, step, state, observations,
                   fin, trace, faults, failed>>

-----------------------------------------------------------------------------
(* The text generation of run_agent_mcp_client.LLMEnhancedMCPAgent *)

\* what chat.completions.create can do: raise, or answer with a text
EnhanceOutcomes == {[raised |-> TRUE], [raised |-> FALSE, content |-> "text of the model"]}

\* the Decision with its message cleared before the call is made
EnhancedCleared(decision, out) ==
    [decision EXCEPT !.customer_message = IF out.raised THEN None ELSE out.content]

\* the Decision after the try block: decision.customer_message is assigned
\* only when the call has returned
Enhanced(decision, out) ==
    IF out.raised THEN decision
    ELSE [decision EXCEPT !.customer_message = out.content]

\* `if self.llm_client and decision.status != "success"`: the base Decision of
\* super().process_request is returned as it is, or the call is made
EnhanceAsk ==
    /\ pc = "enhance"
    /\ IF produced[Len(produced)].status # "success"
       THEN pc' = "asking" /\ UNCHANGED idx
       ELSE pc' = "idle" /\ idx' = idx + 1
    /\ UNCHANGED <<snapshot, decisions, direct, agent, max_steps, step, state,
                   observations, fin, trace, calls, faults, produced, failed>>

\* the call returns or raises; process_request returns the Decision
EnhanceAnswer(out) ==
    /\ pc = "asking"
    /\ produced' = [produced EXCEPT
                        ![Len(produced)] = Enhanced(produced[Len(produced)], out)]
    /\ faults' = (faults \/ out.raised)
    /\ pc' = "idle"
    /\ idx' = idx + 1
    /\ UNCHANGED <<snapshot, decisions, direct, agent, max_steps, step, state,
                   observations, fin, trace, calls, failed>>

-----------------------------------------------------------------------------
(* The bounded loop of run_agent.py *)

FinishStatuses == {None, "success", "completed", "validation_failed", "assignment_failed"}

\* the args of a finish action
FinishArgs ==
    {[status |-> st, customer_message |-> m, clarifying_question |-> m] :
        st \in FinishStatuses, m \in {None, "text of the model"}}

\* what the decision function can answer in run_agent.py: a tool, finish, a
\* name that is no tool, or a failure (unreachable, timed out, unparsable)
StdioPolicyOutputs ==
    {[action |-> a] : a \in EngineTools \cup {"noop"}}
    \cup {[action |-> "read_resource", uri |-> u] :
             u \in {"resource://requests", "resource://unknown"}}
    \cup {[action |-> "finish", args |-> f] : f \in FinishArgs}
    \cup {[action |-> "raise"]}

\* the except branch of _llm_decide_next_action: the canonical flow
StdioFallback ==
    LET seen == {observations[i] : i \in 1..Len(observations)}
    IN IF "validate_preset" \notin seen THEN [action |-> "validate_preset"]
       ELSE IF "plan_steps" \notin seen THEN [action |-> "plan_steps"]
       ELSE IF "assign_artist" \notin seen THEN [action |-> "assign_artist"]
       ELSE [action |-> "finish",
             args |-> [status |-> "completed", customer_message |-> None,
                       clarifying_question |-> None]]

\* handle_read_resource as seen by the loop: the observation it records
ReadObservation(uri) ==
    IF uri = "resource://requests"
    THEN [ok |-> TRUE, count |-> Len(requests), uri |-> uri]
    ELSE [ok |-> FALSE, error |-> "Unknown resource", uri |-> uri]

\* one iteration of `while step < self.max_steps`
StdioLoopStep(out) ==
    /\ pc = "loop"
    /\ agent = "stdio_llm"
    /\ step < max_steps
    /\ step' = step + 1
    /\ faults' = (faults \/ out.action = "raise")
    /\ LET action == IF out.action = "raise" THEN StdioFallback ELSE out
       IN CASE action.action \in EngineTools ->
                   /\ CallEngine(action.action)
                   /\ observations' = Append(observations, action.action)
                   /\ UNCHANGED <<fin, pc>>
            [] action.action = "read_resource" ->
                   /\ observations' = Append(observations, "read_resource")
                   /\ trace' = Append(trace, TraceRecord("read_resource",
                                                         ReadObservation(action.uri)))
                   /\ UNCHANGED <<state, calls, fin, pc>>
            [] action.action = "finish" ->
                   /\ fin' = [emitted |-> TRUE,
                              status |-> action.args.status,
                              customer_message |-> action.args.customer_message,
                              clarifying_question |-> action.args.clarifying_question]
                   /\ observations' = Append(observations, "finish")
                   /\ pc' = "finalize"
                   /\ UNCHANGED <<state, trace, calls>>
            [] OTHER ->
                   UNCHANGED <<state, observations, trace, calls, fin, pc>>
    /\ UNCHANGED <<snapshot, decisions, direct, agent, max_steps, idx, produced, failed>>

-----------------------------------------------------------------------------
(* The bounded loop of run_agent_http.py *)

\* what the decision function can answer in run_agent_http.py: any action
\* name, no action, text that is no JSON, or an exception of the call
HttpPolicyOutputs ==
    {[action |-> a] :
        a \in EngineTools \cup {"finish", None, "noop", "record_decision",
                                "unparsable", "raise"}}

\* a substitute that asks for the assignment before the plan
HttpHeuristicAssignFirst ==
    IF "validation_result" \notin DOMAIN state THEN [action |-> "validate_preset"]
    ELSE IF ~IsOk(state["validation_result"]) THEN [action |-> "finish"]
    ELSE IF "assignment_result" \notin DOMAIN state THEN [action |-> "assign_artist"]
    ELSE IF "plan_result" \notin DOMAIN state THEN [action |-> "plan_steps"]
    ELSE [action |-> "finish"]

\* _react_decide without llm_client
HttpHeuristic ==
    IF "validation_result" \notin DOMAIN state THEN [action |-> "validate_preset"]
    ELSE IF ~IsOk(state["validation_result"]) THEN [action |-> "finish"]
    ELSE IF "plan_result" \notin DOMAIN state THEN [action |-> "plan_steps"]
    ELSE IF "assignment_result" \notin DOMAIN state THEN [action |-> "assign_artist"]
    ELSE [action |-> "finish"]

\* the decision data a policy can pass to record_decision
PolicyDecisionData == [status |-> "success"]

\* one iteration of `for _ in range(self.max_steps)`
HttpLoopStep(out) ==
    /\ pc = "loop"
    /\ agent \in {"http_llm", "http_nollm"}
    /\ step < max_steps
    /\ agent = "http_nollm" => out = HttpHeuristic
    /\ step' = step + 1
    /\ faults' = (faults \/ out.action \in {"raise", "unparsable"})
    /\ CASE out.action = "raise" ->
                \* the exception of chat.completions.create leaves process_request
                /\ failed' = Append(failed, CurrentRequest.id)
                /\ pc' = "idle"
                /\ idx' = idx + 1
                /\ UNCHANGED <<state, trace, calls, decisions>>
         [] out.action \in {"finish", None, "unparsable"} ->
                /\ pc' = "finalize"
                /\ UNCHANGED <<state, trace, calls, decisions, failed, idx>>
         [] out.action \in EngineTools ->
                /\ CallEngine(out.action)
                /\ pc' = IF \/ out.action = "validate_preset"
                               /\ ~IsOk(ToolResult("validate_preset"))
                            \/ {"validation_result", "plan_result", "assignment_result"}
                                   \subseteq DOMAIN state'
                         THEN "finalize" ELSE "loop"
                /\ UNCHANGED <<decisions, failed, idx>>
         [] out.action = "record_decision" ->
                \* call_tool sends whatever name the policy gave
                /\ decisions' = RecordDecision(decisions, CurrentRequest.id,
                                               PolicyDecisionData)
                /\ trace' = Append(trace,
                                   TraceRecord("record_decision",
                                               [decision_id |-> Len(decisions) + 1,
                                                status |-> PolicyDecisionData.status]))
                /\ calls' = Append(calls, "record_decision")
                /\ UNCHANGED <<state, pc, failed, idx>>
         [] OTHER ->
                \* HTTP 400 "Unknown tool": raise_for_status leaves process_request
                /\ calls' = Append(calls, out.action)
                /\ failed' = Append(failed, CurrentRequest.id)
                /\ pc' = "idle"
                /\ idx' = idx + 1
                /\ UNCHANGED <<state, trace, decisions>>
    /\ UNCHANGED <<snapshot, direct, agent, max_steps, observations, fin, produced>>

-----------------------------------------------------------------------------
(* A call that raises inside process_request *)

StdioAgents == {"stdio_det", "stdio_llm"}

\* process_request is at a point where it calls a tool of the server
AtToolCall == pc \in {"validate", "plan", "assign", "finalize", "loop"}

\* session.call_tool or raise_for_status raises (connection lost, server
\* gone): the exception leaves process_request.  run_agent_http.py and
\* run_agent_mcp_client.py catch it in the `for` of process_all_requests and
\* go on; run_agent.py has no try there, so the exception ends the batch.
CallToolRaises ==
    /\ AtToolCall
    /\ idx <= Len(requests)
    /\ failed' = Append(failed, CurrentRequest.id)
    /\ IF agent \in StdioAgents
       THEN pc' = "aborted" /\ UNCHANGED idx
       ELSE pc' = "idle" /\ idx' = idx + 1
    /\ UNCHANGED <<snapshot, decisions, direct, agent, max_steps, step, state,
                   observations, fin, trace, calls, faults, produced>>

-----------------------------------------------------------------------------
(* The system: one client driving the server *)

ArtistFree == [id |-> "a-1", name |-> "Ada", skills |-> <<"lowpoly", "unity">>,
               capacity_concurrent |-> 2, active_load |-> 0]

ArtistFullUnskilled == [id |-> "a-2", name |-> "Ben", skills |-> <<"low poly", "PBR">>,
                        capacity_concurrent |-> 1, active_load |-> 1]

Init ==
    /\ requests = <<Req1>>
    /\ artists \in {<<ArtistFree>>, <<ArtistFullUnskilled>>}
    /\ presets \in {[acme |-> PresetOk], [acme |-> PresetNoAlpha],
                    [bluenova |-> PresetOk]}
    /\ rules = <<RuleRush, RuleQuad>>
    /\ decisions = <<>>
    /\ reply = NoReply
    /\ history = <<>>
    /\ agent \in Agents
    /\ max_steps \in IF agent \in LoopAgents THEN 1..MaxSteps ELSE {0}
    /\ pc = "idle"
    /\ idx = 1
    /\ step = 0
    /\ state = EmptyDict
    /\ observations = <<>>
    /\ fin = NoFinish
    /\ trace = <<>>
    /\ calls = <<>>
    /\ faults = FALSE
    /\ produced = <<>>
    /\ failed = <<>>

Next ==
    \/ BeginRequest
    \/ DetValidate
    \/ DetPlan
    \/ DetAssign
    \/ \E out \in StdioPolicyOutputs : StdioLoopStep(out)
    \/ \E out \in HttpPolicyOutputs : HttpLoopStep(out)
    \/ Finalize
    \/ EnhanceAsk
    \/ \E out \in EnhanceOutcomes : EnhanceAnswer(out)

Spec == Init /\ [][Next]_vars

\* a batch of two requests, one loop iteration at most for each
BatchSteps == 1

InitBatch ==
    /\ requests = <<Req1, Req2>>
    /\ artists = <<ArtistFree>>
    /\ presets \in {[acme |-> PresetOk], [bluenova |-> PresetOk]}
    /\ rules = <<RuleRush, RuleQuad>>
    /\ decisions = <<>>
    /\ reply = NoReply
    /\ history = <<>>
    /\ agent \in Agents
    /\ max_steps \in IF agent \in LoopAgents THEN 1..BatchSteps ELSE {0}
    /\ pc = "idle"
    /\ idx = 1
    /\ step = 0
    /\ state = EmptyDict
    /\ observations = <<>>
    /\ fin = NoFinish
    /\ trace = <<>>
    /\ calls = <<>>
    /\ faults = FALSE
    /\ produced = <<>>
    /\ failed = <<>>

\* the batch driver with calls that may raise
NextBatch ==
    \/ Next
    \/ CallToolRaises

SpecBatch == InitBatch /\ [][NextBatch]_vars

-----------------------------------------------------------------------------
(* The two agents of run_agent_http.py on the same requests: the batch is  *)
(* processed by MCPAgent and then once more, on the same server, by        *)
(* LLMEnhancedMCPAgent without llm_client                                   *)

InitTwice ==
    /\ requests \in {<<Req1>>, <<Req2>>}
    /\ artists \in {<<ArtistFree>>, <<ArtistFullUnskilled>>}
    /\ presets \in {[acme |-> p] : p \in PresetPool}
    /\ rules = <<RuleRush, RuleQuad>>
    /\ decisions = <<>>
    /\ reply = NoReply
    /\ history = <<>>
    /\ agent = "http_det"
    /\ max_steps = 0
    /\ pc = "idle"
    /\ idx = 1
    /\ step = 0
    /\ state = EmptyDict
    /\ observations = <<>>
    /\ fin = NoFinish
    /\ trace = <<>>
    /\ calls = <<>>
    /\ faults = FALSE
    /\ produced = <<>>
    /\ failed = <<>>

\* main() is run again with LLMEnhancedMCPAgent(max_steps=n), no llm_client
RunLoopAgent(n) ==
    /\ agent = "http_det"
    /\ pc = "idle"
    /\ idx > Len(requests)
    /\ agent' = "http_nollm"
    /\ max_steps' = n
    /\ idx' = 1
    /\ UNCHANGED <<snapshot, decisions, direct, pc, step, state, observations,
                   fin, trace, calls, faults, produced, failed>>

NextTwice ==
    \/ BeginRequest
    \/ DetValidate
    \/ DetPlan
    \/ DetAssign
    \/ HttpLoopStep(HttpHeuristic)
    \/ Finalize
    \/ \E n \in 3..MaxSteps : RunLoopAgent(n)

SpecTwice == InitTwice /\ [][NextTwice]_vars

-----------------------------------------------------------------------------
(* The messaging derivation on failed validation results *)

\* error messages: those of the validation engine, those the taxonomy of
\* run_agent_http.py knows, with and without a colon, and one it does not know
ErrorPool ==
    {Err("Missing texture channels", <<"a">>),
     Err("Missing texture channels", <<"x">>),
     Err("Missing texture channels", <<>>),
     Err("No texture packing configuration found", <<>>),
     Err("Preset version not specified", <<>>),
     Err("Missing naming pattern in preset", <<>>),
     Err("Unsupported engine", <<"Godot">>),
     Err("Unsupported engine", <<"">>),
     Err("Engine not specified", <<>>),
     Err("Unsupported map", <<"height">>),
     Err("Map conflict", <<>>),
     Err("Topology must be quad only", <<>>),
     Err("Missing UVs", <<>>),
     Err("UV overlap detected", <<>>),
     Err("Exceeds max texture size", <<>>),
     Err("Exceeds polycount", <<>>)}

\* the validation results with ok = false: every list of at most MaxErrors
\* errors, and a result without a list
FailedValidations ==
    {[ok |-> FALSE, errors |-> errs] :
        errs \in UNION {[1..n -> ErrorPool] : n \in 0..MaxErrors}}
    \cup {[ok |-> FALSE]}

InitMessaging ==
    /\ requests = <<Req1>>
    /\ artists = <<>>
    /\ presets = EmptyDict
    /\ rules = <<>>
    /\ decisions = <<>>
    /\ reply = NoReply
    /\ history = <<>>
    /\ agent \in DetAgents
    /\ max_steps = 0
    /\ pc = "off"
    /\ idx = 1
    /\ step = 0
    /\ state \in {[validation_result |-> v] : v \in FailedValidations}
    /\ observations = <<>>
    /\ fin = NoFinish
    /\ trace = <<>>
    /\ calls = <<>>
    /\ faults = FALSE
    /\ produced = <<>>
    /\ failed = <<>>

\* the two derivations of process_request on a failed validation
DeriveMessages ==
    /\ pc = "off"
    /\ reply = NoReply
    /\ reply' = [tool |-> "messaging",
                 validation |-> validation_result,
                 customer_message |-> CustomerMessage(validation_result),
                 clarifying_question |-> ClarifyingQuestion(validation_result)]
    /\ UNCHANGED <<snapshot, decisions, history, clientVars>>

NextMessaging == DeriveMessages

SpecMessaging == InitMessaging /\ [][NextMessaging]_vars

-----------------------------------------------------------------------------
(* Properties of the server called directly *)

\* the direct calls answered so far that selected the artist with this id
SelectionsOf(id) ==
    {i \in 1..Len(history) :
        history[i].tool = "assign_artist" /\ history[i].result.artist_id = id}

\* C11: no operation (validate_preset, plan_steps, assign_artist,
\* record_decision, resource reads) changes requests, artists, presets or
\* rules; assign_artist never changes an active_load, so every assignment
\* answered earlier is still the answer now, whatever was assigned or recorded
\* in between.
C11_SnapshotReadOnly ==
    /\ [][snapshot' = snapshot]_vars
    /\ [](\A i \in 1..Len(history) :
              history[i].tool = "assign_artist"
                  => history[i].result = AssignArtist(history[i].request_id))

\* the artist with one free slot was selected twice, a decision recorded in
\* between
C11_Witness ==
    /\ Cardinality(SelectionsOf(ArtistNearFull.id))
           > ArtistNearFull.capacity_concurrent - ArtistNearFull.active_load
    /\ \E i, j \in SelectionsOf(ArtistNearFull.id), k \in 1..Len(history) :
           i < k /\ k < j /\ history[k].tool = "record_decision"

\* two answered calls are the same call of validate_preset or plan_steps
SameCall(a, b) ==
    /\ a.tool = b.tool
    /\ a.tool \in {"validate_preset", "plan_steps"}
    /\ a.request_id = b.request_id
    /\ a.tool = "validate_preset" => a.account_id = b.account_id

\* C15: validate_preset and plan_steps are deterministic and free of side
\* effects: the same call answered twice, whatever was called in between,
\* returned the same ok, errors and preset_version, respectively the same
\* steps and matched_rules.
C15_SameCallSameResult ==
    \A i, j \in 1..Len(history) :
        (i < j /\ SameCall(history[i], history[j])) =>
            IF history[i].tool = "validate_preset"
            THEN /\ history[i].result.ok = history[j].result.ok
                 /\ history[i].result.errors = history[j].result.errors
                 /\ Get(history[i].result, "preset_version", "absent")
                        = Get(history[j].result, "preset_version", "absent")
            ELSE /\ history[i].result.steps = history[j].result.steps
                 /\ history[i].result.matched_rules = history[j].result.matched_rules

\* validate_preset of a known request was answered twice with another
\* operation in between
C15_Witness ==
    \E i, j, k \in 1..Len(history) :
        /\ i < k /\ k < j
        /\ SameCall(history[i], history[j])
        /\ history[i].tool = "validate_preset"
        /\ history[i].request_id = "req-1"
        /\ history[k].tool \in {"assign_artist", "record_decision", "plan_steps"}

\* an engine was called with a request id that is not in the snapshot
UnknownIdCall(entry) ==
    /\ entry.tool \in EngineTools
    /\ ~HasRequest(requests, entry.request_id)

\* C19: for a request id that is not in the snapshot validate_preset returns
\* ok = false with the single error 'Request <id> not found', plan_steps
\* returns no steps and no matched rules with an error string, assign_artist
\* returns a null artist_id and no alternatives; none of them raises and none
\* changes any state of the server.
C19_UnknownRequest ==
    /\ [](\A i \in 1..Len(history) :
              UnknownIdCall(history[i]) =>
                  LET result == history[i].result
                  IN CASE history[i].tool = "validate_preset" ->
                              /\ ~result.ok
                              /\ result.errors
                                     = <<Err("Request not found",
                                             <<history[i].request_id>>)>>
                       [] history[i].tool = "plan_steps" ->
                              /\ result.steps = <<>>
                              /\ result.matched_rules = <<>>
                              /\ result.error
                                     = Err("Request not found",
                                           <<history[i].request_id>>)
                       [] history[i].tool = "assign_artist" ->
                              /\ result.artist_id = None
                              /\ result.alternative_artists = <<>>)
    /\ [][(Len(history') > Len(history) /\ UnknownIdCall(reply'))
              => (snapshot' = snapshot /\ decisions' = decisions)]_vars

\* each of the three engines has answered a call with an unknown request id
C19_Witness ==
    \A tool \in EngineTools :
        \E i \in 1..Len(history) :
            history[i].tool = tool /\ history[i].request_id = "does-not-exist"

\* the records of the audit list before a step are its first records after
KeepsRecords == SubSeq(decisions', 1, Len(decisions)) = decisions

\* a step in which record_decision answered
RecordStep == Len(history') > Len(history) /\ reply'.tool = "record_decision"

\* C21: every record_decision call appends exactly one record to the end of
\* the audit list, leaves the records already there unchanged and in order, and
\* returns a decision id that no record already in the list carries; no other
\* operation changes the audit list.
C21_AppendOnly ==
    [][IF RecordStep
       THEN /\ Len(decisions') = Len(decisions) + 1
            /\ KeepsRecords
            /\ decisions'[Len(decisions')].id = reply'.result.decision_id
            /\ \A i \in 1..Len(decisions) :
                   decisions[i].id # reply'.result.decision_id
       ELSE decisions' = decisions]_vars

\* two decisions were recorded with another operation in between
C21_Witness ==
    /\ Len(decisions) = 2
    /\ \E i, j, k \in 1..Len(history) :
           /\ i < k /\ k < j
           /\ history[i].tool = "record_decision"
           /\ history[j].tool = "record_decision"
           /\ history[k].tool \in EngineTools

\* the record the i-th answered call appended, seen in the audit list
Recorded(i, status) ==
    /\ "decision_id" \in DOMAIN history[i].result
    /\ history[i].result.status = status
    /\ \E k \in 1..Len(decisions) :
           /\ decisions[k].id = history[i].result.decision_id
           /\ decisions[k].request_id = history[i].request_id
           /\ decisions[k].status = status

\* C22: record_decision validates nothing and always succeeds: for any
\* request id and any payload it appends a record and returns a decision id,
\* and the status stored and returned is the status of the payload verbatim,
\* a missing status (null) included.
C22_StatusVerbatim ==
    \A i \in 1..Len(history) :
        history[i].tool = "record_decision"
            => Recorded(i, Get(history[i].decision, "status", None))

\* C22 as amended: the status stored and returned is the status of the
\* payload when the payload has one, and "unknown" when it has none.
C22_StatusOrUnknown ==
    \A i \in 1..Len(history) :
        history[i].tool = "record_decision"
            => Recorded(i, Get(history[i].decision, "status", "unknown"))

\* a payload with an unrecognized status for an unknown request id and a
\* payload without a status were both recorded
C22_Witness ==
    /\ \E i \in 1..Len(history) :
           /\ history[i].tool = "record_decision"
           /\ ~HasRequest(requests, history[i].request_id)
           /\ history[i].result.status = "test"
    /\ \E i \in 1..Len(history) :
           /\ history[i].tool = "record_decision"
           /\ "status" \notin DOMAIN history[i].decision
           /\ history[i].result.status = "unknown"

\* the call named a tool or a resource the server does not have
Unrecognized(entry) ==
    IF entry.tool = "read_resource" THEN entry.uri \notin ResourceUris
    ELSE entry.tool \notin EngineTools \cup {"record_decision"}

\* the fault the caller of that server is to see
ExpectedFault(entry) ==
    CASE entry.server = "stdio" /\ entry.tool = "read_resource" ->
             [exception |-> "RuntimeError"]
      [] entry.server = "stdio" /\ entry.tool # "read_resource" ->
             [exception |-> "ValueError"]
      [] entry.server = "http" /\ entry.tool = "read_resource" ->
             [status_code |-> 404]
      [] entry.server = "http" /\ entry.tool # "read_resource" ->
             [status_code |-> 400]

\* C26: a tool call with an unrecognized name and a resource read with an
\* unrecognized identifier are rejected with a fault the caller sees (an
\* exception over stdio, HTTP status 400 and 404 respectively); no engine
\* runs, and the audit list and the snapshot are unchanged.
C26_CallerFault ==
    /\ [](\A i \in 1..Len(history) :
              Unrecognized(history[i]) =>
                  /\ history[i].raised
                  /\ history[i].fault = ExpectedFault(history[i])
                  /\ "result" \notin DOMAIN history[i])
    /\ [][(Len(history') > Len(history) /\ Unrecognized(reply'))
              => (snapshot' = snapshot /\ decisions' = decisions)]_vars

\* an unknown tool was rejected by both servers and an unknown resource by
\* the HTTP server
C26_Witness ==
    /\ \A server \in Servers :
           \E i \in 1..Len(history) :
               history[i].tool = "noop" /\ history[i].server = server
    /\ \E i \in 1..Len(history) :
           /\ history[i].tool = "read_resource"
           /\ history[i].uri = "resource://unknown"
           /\ history[i].fault = [status_code |-> 404]

-----------------------------------------------------------------------------
(* Properties of the validation engine *)

\* validate_preset was called for a request of the snapshot
ValidatedKnown ==
    reply.tool = "validate_preset" /\ HasRequest(requests, reply.request_id)

\* the preset the call was validated against, {} for an account without one
PresetOfCall == Get(presets, reply.account_id, EmptyDict)

\* the preset has a naming pattern that is not empty
HasNamingPattern(preset) ==
    /\ "naming" \in DOMAIN preset
    /\ "pattern" \in DOMAIN preset["naming"]
    /\ preset["naming"]["pattern"] # ""

\* the channels of r, g, b, a the preset does not pack, in that order
Unpacked(preset) ==
    SelectSeq(required_channels,
              LAMBDA ch : "packing" \notin DOMAIN preset
                          \/ ch \notin DOMAIN preset["packing"])

\* the errors of the answer that carry this text
ErrorsWith(text) ==
    SelectSeq(reply.result.errors, LAMBDA e : e.text = text)

\* C16: the naming, packing and version checks are evaluated independently:
\* for a known request the errors hold a naming error iff the preset has no
\* non-empty naming pattern, a packing error iff the packing map is absent or
\* lacks one of r, g, b, a (all missing channels named in one error), a version
\* error iff the version is absent; ok is true iff there is no error.
C16_IndependentChecks ==
    ValidatedKnown =>
        LET preset == PresetOfCall
            naming == ErrorsWith("Missing naming pattern in preset")
            channels == ErrorsWith("Missing texture channels")
            nopacking == ErrorsWith("No texture packing configuration found")
            version == ErrorsWith("Preset version not specified")
        IN /\ (Len(naming) > 0) <=> ~HasNamingPattern(preset)
           /\ (Len(channels) + Len(nopacking) > 0) <=> (Len(Unpacked(preset)) > 0)
           /\ Len(channels) > 0
                  => (Len(channels) = 1 /\ channels[1].detail = Unpacked(preset))
           /\ (Len(version) > 0) <=> ("version" \notin DOMAIN preset)
           /\ reply.result.ok <=> (reply.result.errors = <<>>)

\* C17: for every known request whose account preset has the four channels
\* r, g, b, a, a version and a non-empty naming pattern, validate_preset
\* returns ok = true, no errors and the version of the preset.
C17_CompletePresetPasses ==
    (/\ ValidatedKnown
     /\ HasNamingPattern(PresetOfCall)
     /\ Len(Unpacked(PresetOfCall)) = 0
     /\ "version" \in DOMAIN PresetOfCall)
        => /\ reply.result.ok
           /\ reply.result.errors = <<>>
           /\ reply.result.preset_version = PresetOfCall.version

\* a complete preset that packs a fifth channel was validated
C17_Witness ==
    /\ ValidatedKnown
    /\ reply.account_id \in DOMAIN presets
    /\ PresetOfCall = PresetExtra
    /\ reply.result.ok

\* C18: for every known request validated against an account without a
\* preset, validate_preset returns ok = false, errors that include the
\* missing packing configuration, and preset_version = null.
C18_AbsentPreset ==
    (ValidatedKnown /\ reply.account_id \notin DOMAIN presets)
        => /\ ~reply.result.ok
           /\ Len(ErrorsWith("No texture packing configuration found")) = 1
           /\ reply.result.preset_version = None

\* a known request was validated against an account without a preset
C18_Witness ==
    /\ ValidatedKnown
    /\ reply.account_id = "bluenova"
    /\ reply.account_id \notin DOMAIN presets
    /\ ~reply.result.ok

\* C20: every result of validate_preset, ok or not and also for an unknown
\* request id, has a preset_version field (possibly null) and a validation
\* timestamp.
C20_VersionAndTimestamp ==
    reply.tool = "validate_preset"
        => {"preset_version", "validation_timestamp"} \subseteq DOMAIN reply.result

\* the call has emitted an event of type validation.failed
EmittedValidationFailed ==
    \E i \in 1..Len(reply.events) : reply.events[i].type = "validation.failed"

\* C35: validate_preset emits a validation.failed event exactly when the
\* preset has a packing map that lacks one of the channels r, g, b, a; a preset
\* without packing, without a naming pattern or without version emits none on
\* that account, and neither does an unknown request id
C35_EventIffChannelMissing ==
    reply.tool = "validate_preset" =>
        /\ HasRequest(requests, reply.request_id) =>
               (EmittedValidationFailed
                    <=> /\ "packing" \in DOMAIN PresetOfCall
                        /\ \E ch \in {"r", "g", "b", "a"} :
                               ch \notin DOMAIN PresetOfCall["packing"])
        /\ ~HasRequest(requests, reply.request_id) => ~EmittedValidationFailed
        /\ Len(reply.events) <= 3

\* a preset whose packing lacks the channel a has emitted one validation.failed
\* event that names the channel
C35_Witness ==
    /\ reply.tool = "validate_preset"
    /\ HasRequest(requests, reply.request_id)
    /\ "packing" \in DOMAIN PresetOfCall
    /\ "a" \notin DOMAIN PresetOfCall["packing"]
    /\ Len(reply.events) = 3
    /\ reply.events[2].type = "validation.failed"
    /\ reply.events[2].data.missing_channels = <<"a">>

-----------------------------------------------------------------------------
(* Properties of the planning engine *)

\* plan_steps was called for a request of the snapshot
PlannedKnown == reply.tool = "plan_steps" /\ HasRequest(requests, reply.request_id)

\* the steps listed by the action of a matched rule
ActionSteps(matched) == Get(matched.action, "steps", <<>>)

\* <<i, j>> comes before <<k, l>>
PairBefore(a, b) == a[1] < b[1] \/ (a[1] = b[1] /\ a[2] < b[2])

\* where a step is first listed: <<matched rule, position in its action>>
FirstListed(matched_rules, st) ==
    LET at == {ij \in UNION {{<<i, j>> : j \in 1..Len(ActionSteps(matched_rules[i]))} :
                              i \in 1..Len(matched_rules)} :
                  ActionSteps(matched_rules[ij[1]])[ij[2]] = st}
    IN CHOOSE ij \in at : \A other \in at : other = ij \/ PairBefore(ij, other)

\* C12: for every known request and every rule set the steps of plan_steps
\* end with qa_check immediately followed by delivery, hold no duplicate, and
\* the injected steps (exactly the steps listed by the matched rules) come
\* before qa_check in the order of the matching rules and, within one rule,
\* in the order of its action.
C12_PlanShape ==
    PlannedKnown =>
        LET steps == reply.result.steps
            matched_rules == reply.result.matched_rules
            n == Len(steps)
            listed == UNION {{ActionSteps(matched_rules[i])[j] :
                                 j \in 1..Len(ActionSteps(matched_rules[i]))} :
                             i \in 1..Len(matched_rules)}
        IN /\ n >= 2
           /\ steps[n - 1] = "qa_check"
           /\ steps[n] = "delivery"
           /\ \A a, b \in 1..n : a # b => steps[a] # steps[b]
           /\ {steps[a] : a \in 1..(n - 2)} = listed \ {"qa_check", "delivery"}
           /\ \A a, b \in 1..(n - 2) :
                  a < b => PairBefore(FirstListed(matched_rules, steps[a]),
                                      FirstListed(matched_rules, steps[b]))

\* two matched rules list a common step and two different steps were injected
C12_Witness ==
    /\ PlannedKnown
    /\ Len(reply.result.steps) >= 4
    /\ \E i, j \in 1..Len(reply.result.matched_rules) :
           /\ i < j
           /\ \E a \in 1..Len(ActionSteps(reply.result.matched_rules[i])),
                 b \in 1..Len(ActionSteps(reply.result.matched_rules[j])) :
                  ActionSteps(reply.result.matched_rules[i])[a]
                      = ActionSteps(reply.result.matched_rules[j])[b]

\* every condition key of the rule is a field of the request with that value
ConditionsHold(req, rule) ==
    \A k \in DOMAIN Get(rule, "if", EmptyDict) :
        k \in DOMAIN req /\ req[k] = rule["if"][k]

\* C13: matched_rules lists exactly the rules whose every condition key
\* equals the request's value for that field (an absent field never matches),
\* in stored rule order, each with the ordinal position of the rule in the
\* stored list as rule_id, so that two different matched rules never carry
\* the same rule_id.
C13_MatchedRules ==
    PlannedKnown =>
        LET req == FindRequest(requests, reply.request_id)
            matched_rules == reply.result.matched_rules
            matching == {i \in 1..Len(rules) : ConditionsHold(req, rules[i])}
        IN /\ Len(matched_rules) = Cardinality(matching)
           /\ \A m \in 1..Len(matched_rules) :
                  LET i == matched_rules[m].rule_id + 1
                  IN /\ i \in matching
                     /\ Cardinality({k \in matching : k < i}) = m - 1
                     /\ matched_rules[m].condition = Get(rules[i], "if", EmptyDict)
                     /\ matched_rules[m].action = Get(rules[i], "then", EmptyDict)
           /\ \A m, o \in 1..Len(matched_rules) :
                  m # o => matched_rules[m].rule_id # matched_rules[o].rule_id

\* C14: plan_steps returns priority_queue = true iff the action of at least
\* one matched rule has a queue marker equal to "expedite", which is exactly
\* when assign_artist treats the same request as priority.
C14_PriorityQueue ==
    PlannedKnown =>
        LET req == FindRequest(requests, reply.request_id)
            matched_rules == reply.result.matched_rules
        IN /\ reply.result.priority_queue
                  <=> \E m \in 1..Len(matched_rules) :
                          Get(matched_rules[m].action, "queue", None) = "expedite"
           /\ reply.result.priority_queue <=> IsPriority(rules, req)

-----------------------------------------------------------------------------
(* Properties of the orchestrators *)

\* the engine tools among the calls of the current request, in call order
IsEngineTool(tool) == tool \in EngineTools
EngineCalls == SelectSeq(calls, IsEngineTool)

\* process_request has ended for the request before idx
Ended == pc = "idle" /\ idx > 1

\* a failed validation was observed in the trace at position i
FailedValidationAt(i) ==
    trace[i].step = "validate_preset" /\ ~trace[i].result.ok

\* C1: in every Decision produced by any orchestrator, under any policy output,
\* status is success iff validation_result.ok and the assignment has an
\* artist_id; it is validation_failed whenever validation did not succeed and
\* assignment_failed otherwise.
C1_StatusFollowsGates ==
    \A i \in 1..Len(produced) :
        LET d == produced[i]
            ok == IsOk(d.validation_result)
            assigned == HasArtist(d.assignment)
        IN /\ (d.status = "success") <=> (ok /\ assigned)
           /\ ~ok => d.status = "validation_failed"
           /\ (ok /\ ~assigned) => d.status = "assignment_failed"

\* C2: in the bounded loop, after validate_preset has returned ok = false,
\* plan_steps and assign_artist are not invoked for that request.
C2_NoEngineAfterFailedValidation ==
    agent \in LoopAgents =>
        \A i, j \in 1..Len(trace) :
            (i < j /\ FailedValidationAt(i))
                => trace[j].step \notin {"plan_steps", "assign_artist"}

\* C3: the deterministic pipeline invokes validate_preset, plan_steps and
\* assign_artist at most once each and in that order, and stops after a failed
\* validation: no plan_steps or assign_artist, and status validation_failed.
C3_DeterministicPipeline ==
    agent \in DetAgents =>
        /\ EngineCalls = SubSeq(<<"validate_preset", "plan_steps", "assign_artist">>,
                                1, Len(EngineCalls))
        /\ (Len(trace) > 0 /\ FailedValidationAt(1)) => Len(EngineCalls) = 1
        /\ \A i \in 1..Len(produced) :
               ~IsOk(produced[i].validation_result)
                   => produced[i].status = "validation_failed"

\* C4: for every ceiling and every policy the bounded loop asks the policy at
\* most max_steps times, makes at most max_steps engine invocations and stops;
\* when it stops without a finish from the policy, the status of the Decision
\* is inferred from the observations: validation_failed without a successful
\* validation, else assignment_failed without an assigned artist, else success.
C4_BoundedLoopInfersStatus ==
    agent \in LoopAgents =>
        /\ step <= max_steps
        /\ Len(EngineCalls) <= max_steps
        /\ (Ended /\ ~fin.emitted) =>
               LET validated == \E i \in 1..Len(trace) :
                                    /\ trace[i].step = "validate_preset"
                                    /\ trace[i].result.ok
                   assigned == \E i \in 1..Len(trace) :
                                   /\ trace[i].step = "assign_artist"
                                   /\ trace[i].result.artist_id # None
                   inferred == IF ~validated THEN "validation_failed"
                               ELSE IF ~assigned THEN "assignment_failed"
                               ELSE "success"
               IN \E i \in 1..Len(produced) :
                      /\ produced[i].request_id = requests[idx - 1].id
                      /\ produced[i].status = inferred

\* the first action of validate, plan, assign not yet called, or finish
CanonicalNext ==
    LET seen == {calls[i] : i \in 1..Len(calls)}
    IN IF "validate_preset" \notin seen THEN "validate_preset"
       ELSE IF "plan_steps" \notin seen THEN "plan_steps"
       ELSE IF "assign_artist" \notin seen THEN "assign_artist"
       ELSE "finish"

\* C5: a failure of the decision function at any step of the bounded loop is
\* not fatal: the loop goes on with the first of validate, plan, assign not yet
\* observed (or finishes), and a Decision is still produced and recorded.
C5_PolicyFaultNotFatal ==
    /\ [][(agent \in LoopAgents /\ pc = "loop" /\ ~faults /\ faults')
              => /\ failed' = failed
                 /\ IF CanonicalNext = "finish"
                    THEN pc' = "finalize"
                    ELSE calls' = Append(calls, CanonicalNext)]_vars
    /\ [](agent \in LoopAgents /\ Ended /\ faults
              => /\ \E i \in 1..Len(produced) :
                        produced[i].request_id = requests[idx - 1].id
                 /\ \E i \in 1..Len(decisions) :
                        decisions[i].request_id = requests[idx - 1].id)

\* process_request raised for the request before idx
LastFailed == failed # <<>> /\ failed[Len(failed)] = requests[idx - 1].id

\* process_request returned a Decision for the request before idx
Processed == Ended /\ ~LastFailed

\* the positions of record_decision among the calls of the current request
RecordCalls == {i \in 1..Len(calls) : calls[i] = "record_decision"}

\* C23: processing one request through any orchestrator, under any policy
\* output, makes exactly one record_decision call, after all the engine
\* invocations of the request, so the audit list of the server gains exactly
\* one record per processed request.
C23_OneRecordPerRequest ==
    Processed =>
        /\ RecordCalls = {Len(calls)}
        /\ Len(decisions) = Len(produced)

\* the request whose trace and calls are held: the one in process_request, or
\* the one that has just ended
TracedRequest == IF pc = "idle" /\ idx > 1 THEN requests[idx - 1] ELSE requests[idx]

\* what the engine behind a tool returns for the traced request
Returned(tool) ==
    CASE tool = "validate_preset" ->
             ValidatePreset(TracedRequest.id, TracedRequest.account)
      [] tool = "plan_steps" -> PlanSteps(TracedRequest.id)
      [] tool = "assign_artist" -> AssignArtist(TracedRequest.id)

\* the records of rows, one per call of cs, in the same order, each with the
\* value the call returned
OnePerCall(rows, cs) ==
    /\ Len(rows) = Len(cs)
    /\ \A i \in 1..Len(rows) :
           /\ rows[i].step = cs[i]
           /\ rows[i].result = Returned(cs[i])

\* the trace handed over in the Decision is the trace of the request
DecisionHoldsTrace == Processed => produced[Len(produced)].trace = trace

IsEngineRecord(row) == row.step \in EngineTools

AllObserved ==
    /\ pc # "idle"
    /\ EngineTools \subseteq {calls[i] : i \in 1..Len(calls)}

\* C25: in the bounded loop, once validate, plan and assign have each been
\* observed for a request, the loop is over: the policy is not asked again and
\* no engine is invoked again, even below the step ceiling and without a finish
\* from the policy.
C25_StopsAfterAllThree ==
    [][(agent \in LoopAgents /\ AllObserved)
           => (step' = step /\ EngineCalls' = EngineCalls)]_vars

\* C28: a Decision carries a customer message and a clarifying question if
\* and only if its status is not success: both are null when the status is
\* success, and both are non-null when the status is validation_failed or
\* assignment_failed.
C28_MessagesIffNotSuccess ==
    \A i \in 1..Len(produced) :
        LET d == produced[i]
        IN /\ d.status = "success"
                  => (d.customer_message = None /\ d.clarifying_question = None)
           /\ d.status \in {"validation_failed", "assignment_failed"}
                  => (d.customer_message # None /\ d.clarifying_question # None)

\* the Decision process_request is about to return, or has just returned
LastDecision == produced[Len(produced)]

\* the Decision d without its customer message
WithoutMessage(d) == [d EXCEPT !.customer_message = None]

\* a step of the text generation changes at most the customer message of the
\* Decision, and not even that when the call raised or was not made
RewriteStep ==
    pc \in {"enhance", "asking"} =>
        /\ Len(produced') = Len(produced)
        /\ SubSeq(produced', 1, Len(produced) - 1)
               = SubSeq(produced, 1, Len(produced) - 1)
        /\ WithoutMessage(LastDecision') = WithoutMessage(LastDecision)
        /\ failed' = failed
        /\ (pc' = "idle" /\ (pc = "enhance" \/ (faults' /\ ~faults)))
               => LastDecision' = LastDecision

LoopInvokesEnginesOnly ==
    (pc = "loop" /\ step < max_steps) =>
        /\ Len(calls') >= Len(calls)
        /\ \A i \in (Len(calls) + 1)..Len(calls') : calls'[i] \in EngineTools
        /\ decisions' = decisions

\* C36: whatever action the policy returns, an iteration of the bounded loop
\* calls only validate_preset, plan_steps or assign_artist on the server; any
\* other action name causes no call, so that the policy cannot have
\* record_decision or an unknown tool called from inside the loop
C36_LoopCallsEnginesOnly == [][LoopInvokesEnginesOnly]_vars

\* the steps of the trace of a decision
StepsOf(decision) ==
    {decision.trace[i].step : i \in 1..Len(decision.trace)}

\* the steps of the plan of a decision
PlanOf(decision) == Get(decision.plan, "steps", <<>>)

\* C38: every Decision with status success was produced after validate_preset,
\* plan_steps and assign_artist were each called for the request: its trace has
\* the three steps and its plan is not empty and ends in qa_check, delivery
C38_SuccessAfterAllThree ==
    \A i \in 1..Len(produced) :
        produced[i].status = "success" =>
            /\ EngineTools \subseteq StepsOf(produced[i])
            /\ Len(PlanOf(produced[i])) >= 2
            /\ SubSeq(PlanOf(produced[i]), Len(PlanOf(produced[i])) - 1,
                      Len(PlanOf(produced[i]))) = <<"qa_check", "delivery">>

\* the sequence of the steps of a trace
TraceSteps(decision) ==
    ListOf([i \in 1..Len(decision.trace) |-> decision.trace[i].step])

\* what the two agents are compared on
Outcome(decision) ==
    [status |-> decision.status,
     validation_result |-> decision.validation_result,
     plan |-> decision.plan,
     assignment |-> decision.assignment,
     customer_message |-> decision.customer_message,
     clarifying_question |-> decision.clarifying_question,
     steps |-> TraceSteps(decision)]

\* both agents have processed the requests
BothRan == agent = "http_nollm" /\ pc = "idle" /\ idx > Len(requests)

\* C37: without an external decision function and with a ceiling of at least 3
\* steps, the bounded loop of run_agent_http.py produces for every request the
\* status, validation result, plan, assignment, customer message, clarifying
\* question and trace steps that the deterministic pipeline of run_agent_http.py
\* produces
C37_SubstituteIsPipeline ==
    BothRan =>
        /\ failed = <<>>
        /\ Len(produced) = 2 * Len(requests)
        /\ \A i \in 1..Len(requests) :
               Outcome(produced[Len(requests) + i]) = Outcome(produced[i])

\* both agents have assigned the request after the three engine calls
C37_Witness ==
    /\ BothRan
    /\ max_steps = 3
    /\ Len(produced) = 2
    /\ produced[2].status = "success"
    /\ TraceSteps(produced[2]) = <<"validate_preset", "plan_steps", "assign_artist">>

-----------------------------------------------------------------------------
(* Properties of the messaging derivation *)

\* the derivation has run on the failed validation result of state
Derived == reply.tool = "messaging"

\* the buckets of the customer message of run_agent_http.py, in test order
MessageOrder ==
    <<"no_packing_and_version", "no_packing", "missing_channels",
      "unsupported_maps", "map_conflicts", "engine_missing", "engine_unsupported",
      "topology_quad_only", "uv_missing", "uv_overlap", "size_exceeds",
      "polycount_exceeds">>

\* the buckets of the clarifying question of run_agent_http.py, in test order
QuestionOrder ==
    <<"missing_channels", "no_packing", "version_missing", "unsupported_maps",
      "map_conflicts", "engine_missing", "engine_unsupported",
      "topology_quad_only", "uv_missing", "uv_overlap", "size_exceeds",
      "polycount_exceeds">>

\* the test of a bucket on the parsed errors
Matches(bucket, info) ==
    CASE bucket = "no_packing_and_version" -> info.no_packing /\ info.version_missing
      [] bucket = "no_packing" -> info.no_packing
      [] bucket = "version_missing" -> info.version_missing
      [] bucket = "missing_channels" -> info.missing_channels # <<>>
      [] bucket = "unsupported_maps" -> info.unsupported_maps # <<>>
      [] bucket = "map_conflicts" -> info.map_conflicts # <<>>
      [] bucket = "engine_missing" -> info.engine_missing
      [] bucket = "engine_unsupported" -> EngineUnsupported(info)
      [] bucket = "topology_quad_only" -> info.topology_quad_only
      [] bucket = "uv_missing" -> info.uv_missing
      [] bucket = "uv_overlap" -> info.uv_overlap
      [] bucket = "size_exceeds" -> info.size_exceeds
      [] bucket = "polycount_exceeds" -> info.polycount_exceeds

\* the first bucket of the order that matches, or the generic fallback
FirstMatch(order, info) ==
    IF \E i \in 1..Len(order) : Matches(order[i], info)
    THEN order[CHOOSE i \in 1..Len(order) :
                   /\ Matches(order[i], info)
                   /\ \A j \in 1..(i - 1) : ~Matches(order[j], info)]
    ELSE "generic"

\* the canned customer message of a bucket
MessageText(bucket) ==
    CASE bucket = "no_packing_and_version" ->
             "No texture packing configuration found and no preset version specified"
      [] bucket = "no_packing" -> "No texture packing configuration found"
      [] bucket = "missing_channels" -> "Your texture packing is missing channel(s)"
      [] bucket = "unsupported_maps" ->
             "One or more requested texture maps are not supported"
      [] bucket = "map_conflicts" ->
             "There are conflicting map assignments in your preset"
      [] bucket = "engine_missing" -> "Target engine is not specified"
      [] bucket = "engine_unsupported" -> "The selected engine is not supported"
      [] bucket = "topology_quad_only" -> "The preset enforces quad-only topology"
      [] bucket = "uv_missing" -> "The model is missing UVs"
      [] bucket = "uv_overlap" -> "The model has overlapping UVs"
      [] bucket = "size_exceeds" ->
             "One or more textures exceed the maximum supported size"
      [] bucket = "polycount_exceeds" -> "The mesh exceeds the permitted polycount"
      [] bucket = "generic" -> "Validation error: errors"

\* the canned clarifying question of a bucket
QuestionText(bucket) ==
    CASE bucket = "missing_channels" -> "Should we apply a default mapping?"
      [] bucket = "no_packing" -> "Apply a standard packing template?"
      [] bucket = "version_missing" -> "Assume the latest preset version?"
      [] bucket = "unsupported_maps" -> "Drop the unsupported maps or substitute?"
      [] bucket = "map_conflicts" -> "Auto-resolve the conflicting map assignments?"
      [] bucket = "engine_missing" -> "Which engine should we target?"
      [] bucket = "engine_unsupported" -> "Switch to a supported engine?"
      [] bucket = "topology_quad_only" -> "Enforce quad-only by retopologizing?"
      [] bucket = "uv_missing" -> "Auto-unwrap UVs?"
      [] bucket = "uv_overlap" -> "Auto-fix overlapping UVs?"
      [] bucket = "size_exceeds" -> "Downscale oversized textures?"
      [] bucket = "polycount_exceeds" -> "Decimate the mesh to the target polycount?"
      [] bucket = "generic" ->
             "Apply sensible defaults now, or wait for your preset update?"

\* C29: for every validation result with ok = false (recognized and
\* unrecognized error strings in any combination, an empty list, no list) the
\* messaging derivation returns a non-empty customer message and a non-null
\* clarifying question, each that of the first bucket that matches in its fixed
\* priority order, and that of the generic fallback when no bucket matches.
C29_TotalFirstMatch ==
    Derived =>
        /\ reply.customer_message \notin {None, ""}
        /\ reply.clarifying_question \notin {None, ""}
        /\ agent = "http_det" =>
               LET info == ParseValidationErrors(reply.validation)
               IN /\ reply.customer_message
                         = MessageText(FirstMatch(MessageOrder, info))
                  /\ reply.clarifying_question
                         = QuestionText(FirstMatch(QuestionOrder, info))

\* the derivation of run_agent_http.py has run on a result with two
\* recognized errors of different buckets, and on these the message is that of
\* the missing packing and the question that of the missing channels
C29_Witness ==
    /\ Derived
    /\ agent = "http_det"
    /\ reply.validation.ok = FALSE
    /\ Errors(reply.validation)
           = <<Err("Missing texture channels", <<"a">>),
               Err("No texture packing configuration found", <<>>)>>
    /\ reply.customer_message = "No texture packing configuration found"
    /\ reply.clarifying_question = "Should we apply a default mapping?"

\* the bucket a customer message belongs to (run_agent_http.py and
\* run_agent.py); the message for missing packing and missing version is
\* counted with the bucket of the missing packing
BucketOfMessage(text) ==
    CASE text \in {"No texture packing configuration found and no preset version specified",
                   "No texture packing configuration found",
                   "Validation error: No texture packing configuration found"}
             -> "no_packing"
      [] text \in {"Your texture packing is missing channel(s)",
                   "Configuration issue: texture packing incomplete"}
             -> "missing_channels"
      [] text = "One or more requested texture maps are not supported" -> "unsupported_maps"
      [] text = "There are conflicting map assignments in your preset" -> "map_conflicts"
      [] text = "Target engine is not specified" -> "engine_missing"
      [] text = "The selected engine is not supported" -> "engine_unsupported"
      [] text = "The preset enforces quad-only topology" -> "topology_quad_only"
      [] text = "The model is missing UVs" -> "uv_missing"
      [] text = "The model has overlapping UVs" -> "uv_overlap"
      [] text = "One or more textures exceed the maximum supported size" -> "size_exceeds"
      [] text = "The mesh exceeds the permitted polycount" -> "polycount_exceeds"
      [] OTHER -> "generic"

\* the bucket a clarifying question belongs to
BucketOfQuestion(text) ==
    CASE text \in {"Should we apply a default mapping?",
                   "Apply default channel mappings now, or wait for your preset update?"}
             -> "missing_channels"
      [] text = "Apply a standard packing template?" -> "no_packing"
      [] text = "Assume the latest preset version?" -> "version_missing"
      [] text = "Drop the unsupported maps or substitute?" -> "unsupported_maps"
      [] text = "Auto-resolve the conflicting map assignments?" -> "map_conflicts"
      [] text = "Which engine should we target?" -> "engine_missing"
      [] text = "Switch to a supported engine?" -> "engine_unsupported"
      [] text = "Enforce quad-only by retopologizing?" -> "topology_quad_only"
      [] text = "Auto-unwrap UVs?" -> "uv_missing"
      [] text = "Auto-fix overlapping UVs?" -> "uv_overlap"
      [] text = "Downscale oversized textures?" -> "size_exceeds"
      [] text = "Decimate the mesh to the target polycount?" -> "polycount_exceeds"
      [] OTHER -> "generic"

\* C30: for every failed validation result the customer message and the
\* clarifying question are those of one and the same bucket of the taxonomy.
C30_SameBucket ==
    (Derived /\ agent \in {"http_det", "stdio_det"}) =>
        BucketOfMessage(reply.customer_message)
            = BucketOfQuestion(reply.clarifying_question)

-----------------------------------------------------------------------------
(* Properties of the batch driver *)

\* process_all_requests is over: it returned, or an exception left it
BatchOver == pc = "aborted" \/ (pc = "idle" /\ idx > Len(requests))

\* the requests for which process_request returned a Decision, or raised
Handled ==
    {produced[i].request_id : i \in 1..Len(produced)}
        \cup {failed[i] : i \in 1..Len(failed)}

\* C27: when processing one request of a batch fails (a tool call or the
\* transport raises), the batch driver abandons only that request and goes on
\* to process every remaining request in order; the decisions already produced
\* are kept.
C27_BatchGoesOn ==
    /\ [](BatchOver => \A i \in 1..Len(requests) : requests[i].id \in Handled)
    /\ [](\A i, j \in 1..Len(produced) :
              (i < j) => \E m, n \in 1..Len(requests) :
                             /\ m < n
                             /\ requests[m].id = produced[i].request_id
                             /\ requests[n].id = produced[j].request_id)
    /\ [][SubSeq(produced', 1, Len(produced)) = produced]_vars

-----------------------------------------------------------------------------
(* Properties of the assignment engine, on the result of a direct call *)

Assigned == reply.tool = "assign_artist" /\ reply.result.artist_id # None

KnownCall == reply.tool = "assign_artist" /\ HasRequest(requests, reply.request_id)

\* the row of each artist of a roster for the request of the last call, in
\* roster order
RowsOf(roster) ==
    LET req == FindRequest(requests, reply.request_id)
        is_priority == IsPriority(rules, req)
    IN ListOf([i \in 1..Len(roster) |-> Row(req, is_priority, roster[i])])

\* the position of the artist with this id in a roster
PositionOf(roster, id) == CHOOSE i \in 1..Len(roster) : roster[i].id = id

\* r ranks strictly above q in the order skill_score, priority_flag,
\* available_capacity, lower active_load, fallback score
RanksAbove(r, q) ==
    \/ r.skill_score > q.skill_score
    \/ /\ r.skill_score = q.skill_score
       /\ \/ r.priority_flag > q.priority_flag
          \/ /\ r.priority_flag = q.priority_flag
             /\ \/ r.available_capacity > q.available_capacity
                \/ /\ r.available_capacity = q.available_capacity
                   /\ \/ r.load < q.load
                      \/ (r.load = q.load /\ r.score > q.score)

C7_NeverAtCapacity ==
    Assigned =>
        LET a == artists[PositionOf(artists, reply.result.artist_id)]
        IN a.active_load < a.capacity_concurrent

IsEligibleRow(r) == r.skill_score > 0 \/ r.available_capacity > 0

AllKeys(r) == <<r.skill_score, r.priority_flag, r.available_capacity, r.load, r.score>>

\* C10: permuting the roster changes neither the selected artist nor the
\* alternatives, except among artists that tie on every ranking key, and tied
\* artists keep their relative roster order in the ranking.
C10_PermutationInvariant ==
    KnownCall =>
        LET rows == RowsOf(artists)
            base == SortRows(rows)
            bkey == ListOf([i \in 1..Len(base) |-> AllKeys(base[i])])
            bid == ListOf([i \in 1..Len(base) |-> base[i].artist.id])
            balt == reply.result.alternative_artists
        IN \A pi \in Permutations(1..Len(artists)) :
               \* the rows are computed artist by artist, so the rows of the
               \* permuted roster are the permuted rows
               LET roster == ListOf([i \in 1..Len(artists) |-> artists[pi[i]]])
                   ranked == SortRows(ListOf([i \in 1..Len(rows) |-> rows[pi[i]]]))
                   rkey == ListOf([i \in 1..Len(ranked) |-> AllKeys(ranked[i])])
                   rpos == ListOf([i \in 1..Len(ranked) |->
                                      PositionOf(roster, ranked[i].artist.id)])
                   res == SelectTop(ranked)
                   ralt == res.alternative_artists
               IN /\ rkey = bkey
                  /\ \A i, j \in 1..Len(ranked) :
                         (i < j /\ rkey[i] = rkey[j]) => rpos[i] < rpos[j]
                  /\ (res.artist_id = None) <=> (reply.result.artist_id = None)
                  /\ res.artist_id # None =>
                         /\ res.artist_id = ranked[1].artist.id
                         /\ reply.result.artist_id = bid[1]
                         /\ (res.artist_id # reply.result.artist_id
                             => \E k \in 1..Len(base) :
                                    bid[k] = res.artist_id /\ bkey[k] = bkey[1])
                  /\ Len(ralt) = Len(balt)
                  /\ \A i \in 1..Len(ralt) :
                         \/ ralt[i].id = balt[i].id
                         \/ \E k \in 1..Len(base) :
                                bid[k] = ralt[i].id /\ bkey[k] = bkey[i + 1]

\* two artists tie on every key and a third one, ranked below, does not
C10_Witness ==
    /\ Assigned
    /\ Len(artists) = 3
    /\ LET rows == RowsOf(artists)
       IN /\ AllKeys(rows[1]) = AllKeys(rows[3])
          /\ RanksAbove(rows[1], rows[2])

\* C34: whenever assign_artist returns an artist, match_score is greater than 0
\* and at most 20
C34_ScoreRange ==
    Assigned => (reply.result.match_score > 0 /\ reply.result.match_score <= 20)

\* the ids of the selected artist and of the alternatives, in order
RankingOf(result) ==
    <<result.artist_id>>
    \o ListOf([i \in 1..Len(result.alternative_artists) |->
                  result.alternative_artists[i].id])

\* C39: for the same request and roster, assign_artist selects the same artist
\* and lists the same alternatives in the same order whether or not the
\* request matches an expedite rule; only the scores differ
C39_PriorityKeepsRanking ==
    KnownCall =>
        LET plain == AssignArtistOn(requests, artists, <<>>, reply.request_id)
        IN RankingOf(reply.result) = RankingOf(plain)

\* a priority request is assigned with an alternative, a free and a full artist
\* are on the roster, and the score differs from the one without priority
C39_Witness ==
    /\ Assigned
    /\ IsPriority(rules, FindRequest(requests, reply.request_id))
    /\ Len(reply.result.alternative_artists) >= 1
    /\ \E i, j \in 1..Len(artists) :
           /\ RowsOf(artists)[i].priority_flag = 1
           /\ RowsOf(artists)[j].priority_flag = 0
           /\ RowsOf(artists)[i].skill_score = RowsOf(artists)[j].skill_score
    /\ reply.result.match_score
           # AssignArtistOn(requests, artists, <<>>, reply.request_id).match_score

\* the first four ranking keys of a row
FourKeys(r) == <<r.skill_score, r.priority_flag, r.available_capacity, -r.load>>

\* the position of rows[i] in the stable descending order of the first four
\* keys
FourKeyPosition(rows, i) ==
    LET ki == FourKeys(rows[i])
    IN Cardinality({j \in 1..Len(rows) : TupleLess(ki, FourKeys(rows[j]))})
       + Cardinality({j \in 1..(i - 1) : FourKeys(rows[j]) = ki}) + 1

\* C40: two artists that tie on skill_score, priority_flag, available_capacity
\* and active_load have the same fallback score, so that the ranking of
\* assign_artist is the ranking by the first four keys alone
C40_ScoreNeverDecides ==
    KnownCall =>
        LET rows == RowsOf(artists)
        IN /\ \A i, j \in 1..Len(rows) :
                  FourKeys(rows[i]) = FourKeys(rows[j])
                      => rows[i].score = rows[j].score
           /\ \A i \in 1..Len(rows) :
                  SortPosition(rows, i) = FourKeyPosition(rows, i)
           /\ Assigned =>
                  \E i \in 1..Len(rows) :
                      /\ FourKeyPosition(rows, i) = 1
                      /\ rows[i].artist.id = reply.result.artist_id

\* two artists tie on the first four keys and a third one does not
C40_Witness ==
    /\ Assigned
    /\ Len(artists) = 3
    /\ LET rows == RowsOf(artists)
       IN /\ FourKeys(rows[1]) = FourKeys(rows[2])
          /\ FourKeys(rows[1]) # FourKeys(rows[3])
          /\ rows[1].score # rows[3].score

-----------------------------------------------------------------------------
(* Properties of the two servers given the same call *)

\* a result without the time stamp of the validation
WithoutTimestamp(result) ==
    [k \in DOMAIN result \ {"validation_timestamp"} |-> result[k]]

\* C32: for the same snapshot and the same call, the stdio server and the HTTP
\* server both accept or both reject the call, whatever the operation name or
\* the resource identifier, and the results of validate_preset, plan_steps and
\* assign_artist are the same apart from the time stamp
C32_SameAnswers ==
    reply # NoReply =>
        /\ reply.stdio.raised = reply.http.raised
        /\ (reply.tool \in EngineTools /\ ~reply.stdio.raised) =>
               WithoutTimestamp(reply.stdio.result)
                   = WithoutTimestamp(reply.http.result)

\* both servers have returned the same plan with steps added by the rules
C32_Witness ==
    /\ reply # NoReply
    /\ reply.tool = "plan_steps"
    /\ ~reply.stdio.raised
    /\ Len(reply.stdio.result.steps) > 2
    /\ reply.http.result = reply.stdio.result

-----------------------------------------------------------------------------
(* Properties of the caller sessions *)

\* the result of an engine tool called alone on the snapshot of the server
AloneResult(name, arguments) ==
    CASE name = "validate_preset" ->
             HttpValidatePresetOn(SessionRequests, SessionPresets,
                                  arguments.request_id, arguments.account_id)
      [] name = "plan_steps" ->
             HttpPlanStepsOn(SessionRequests, SessionRules, arguments.request_id)
      [] name = "assign_artist" ->
             HttpAssignArtistOn(SessionRequests, SessionArtists, SessionRules,
                                arguments.request_id)

\* C33: with the calls of several sessions interleaved at the suspension points
\* in any order, every validate_preset, plan_steps and assign_artist call
\* returns the result it returns when run alone, and the audit list holds
\* exactly one record per record_decision call, with distinct ids, none lost or
\* overwritten
C33_SessionsIsolated ==
    /\ \A s \in Sessions :
           (reply[s].at = "done" /\ reply[s].tool \in EngineTools) =>
               reply[s].outcome
                   = Returns(AloneResult(reply[s].tool, reply[s].arguments))
    /\ Len(decisions) = Len(history)
    /\ \A i \in 1..Len(decisions) :
           /\ decisions[i].id = history[i].result.decision_id
           /\ decisions[i].request_id = history[i].arguments.request_id
           /\ decisions[i].status = history[i].arguments.decision.status
    /\ \A i, j \in 1..Len(decisions) : decisions[i].id = decisions[j].id => i = j

\* two sessions have recorded a decision each while an assignment returned
\* between the two
C33_Witness ==
    /\ Len(history) >= 2
    /\ \E i, j \in 1..Len(history) : history[i].session # history[j].session
    /\ \E s \in Sessions :
           /\ reply[s].at = "done"
           /\ reply[s].tool = "assign_artist"
           /\ reply[s].outcome.result.artist_id = "a-1"
    /\ \E s \in Sessions : reply[s].at = "read"

====
